---- MODULE Spec2Model ----
(***************************************************************************)
(* SAGSIN controller (testv4day3-11/aco-sagsin-sim): graph builder, epoch  *)
(* updater, ACO solver, route / send-packet handlers and the SSE event     *)
(* broadcaster.                                                            *)
(*                                                                         *)
(* Floating point values are carried in fixed point:                       *)
(*   lat, lon      tenths of a degree        distance     metres           *)
(*   latency_ms    nanoseconds               capacity     bit/s            *)
(*   energy_j      nanojoules                reliability  parts per 10^6   *)
(*   dB values     thousandths of a dB       log2 values  thousandths      *)
(*   normalised    thousandths               edge cost    millionths       *)
(*   pheromone     thousandths                                             *)
(* Python list / dict indices are 0-based; sequences here are 1-based, so  *)
(* a link index idx of the code is idx+1 here.                             *)
(***************************************************************************)
EXTENDS Integers, Sequences, FiniteSets, TLC

\* ------------------------------------------------------------------ bounds
\* number of ants per iteration and of iterations explored by the model
\* (config.py reads them from the configuration: aco.ants, aco.iters)
MaxAnts == 2
MaxIters == 2

\* ------------------------------------------------- configuration (config.py)
freq_mhz == 2400
bw_mhz == 20
p_tx_dbm == 20
noise_dbm == 0 - 100
proc_queue_ms == 2
DefaultMaxRangeKm == 500

\* ---------------------------------------------------------------- numerics
Abs(x) == IF x < 0 THEN 0 - x ELSE x
Min2(a, b) == IF a <= b THEN a ELSE b
Max2(a, b) == IF a >= b THEN a ELSE b

RECURSIVE FloorLog2(_)
FloorLog2(x) == IF x < 2 THEN 0 ELSE 1 + FloorLog2(x \div 2)

\* math.log2 on integers >= 1, in thousandths: exponent plus linearly
\* interpolated mantissa
Log2Milli(x) ==
  LET e == FloorLog2(x)
      p == 2 ^ e
  IN  1000 * e + (IF e <= 20 THEN ((x - p) * 1000) \div p
                             ELSE (x - p) \div (p \div 1000))

\* 1000 * 2^(y/1000) for -10000 < y < 10000 (inverse of Log2Milli)
Exp2Milli(y) ==
  LET e == y \div 1000
      f == y % 1000
  IN  IF e >= 0 THEN (2 ^ e) * (1000 + f) ELSE (1000 + f) \div (2 ^ (0 - e))

\* math.log2(1 + snr) where y is log2(snr) in thousandths
Log2OnePlus(y) ==
  IF y >= 20000 THEN y
  ELSE IF y >= 10000 THEN Log2Milli(1 + ((2 ^ (y \div 1000)) * (1000 + (y % 1000))) \div 1000)
  ELSE IF y > 0 - 10000 THEN Log2Milli(1000 + Exp2Milli(y)) - Log2Milli(1000)
  ELSE 0

\* ------------------------------------------------------ link_models.py
\* metres of great circle per tenth of a degree: EARTH_RADIUS_KM * pi / 1800
MetresPerDeciDeg == 11119

\* haversine_km for two points of equal latitude 0 (the node lists of the
\* model lie on the equator, where the central angle is the longitude
\* difference taken the short way round); result in metres
haversine_km(lat1, lon1, lat2, lon2) ==
  LET dl == Abs(lon2 - lon1) % 3600
      ang == IF dl > 1800 THEN 3600 - dl ELSE dl
  IN  ang * MetresPerDeciDeg + (ang * 49) \div 100

distance_km(n1, n2) == haversine_km(n1.lat, n1.lon, n2.lat, n2.lon)

\* 20*log10(x) = 6.0206*log2(x), in thousandths of a dB
TwentyLog10(x) == (60206 * Log2Milli(x)) \div 10000

fspl_db(d_m, f_mhz) ==
  LET d == IF d_m <= 0 THEN 1 ELSE d_m
  IN  (TwentyLog10(d) - 60000) + (TwentyLog10(f_mhz) + 120000) - 147550

\* returns log2 of the linear SNR (thousandths); the floor 1e-6 is 2^-19.932
snr_linear(fspl_db_val, p_tx, noise) ==
  LET rx_dbm == p_tx * 1000 - fspl_db_val
      snr_db == rx_dbm - noise * 1000
  IN  Max2(((snr_db \div 100) * 33219) \div 1000, 0 - 19932)

capacity_mbps(bw, snr_lin) == bw * Log2OnePlus(snr_lin) * 1000

latency_ms_prop_only(distance_km_val, proc_queue) ==
  (distance_km_val * 1000) \div 299792

latency_ms(distance_km_val, proc_queue) ==
  (distance_km_val * 1000) \div 299792 + proc_queue * 1000000

energy_j(duration_ms, p_tx, kind_src) ==
  LET mw == 10 ^ (p_tx \div 10)
      coeff == IF kind_src = "sat" THEN 15 ELSE IF kind_src = "air" THEN 12 ELSE 10
  IN  (((duration_ms * coeff) \div 10) * mw) \div 1000

reliability(distance_km_val, kind_pair) ==
  LET base == IF "sat" \in kind_pair THEN 900000 ELSE 1000000
      b2 == IF distance_km_val > 0
              THEN (base \div 1000) * (Max2(100000, 1000000 - (distance_km_val \div 5)) \div 1000)
              ELSE base
  IN  Min2(Max2(b2, 0), 1000000)

elevation_ok(src, dst, elevation_min_deg) == TRUE

\* ------------------------------------------------------------- graph.py
\* cfg.max_range_km is {} unless the configuration file sets it, so every
\* kind pair gets the default
_max_range(kind_u, kind_v) == DefaultMaxRangeKm * 1000

RECURSIVE PairsFrom(_, _, _)
PairsFrom(i, j, n) ==
  IF i > n THEN << >>
  ELSE IF j > n THEN PairsFrom(i + 1, i + 2, n)
  ELSE << <<i, j>> >> \o PairsFrom(i, j + 1, n)

MakeLink(u, v) ==
  LET d == distance_km(u, v)
      fspl == fspl_db(d, freq_mhz)
      snr == snr_linear(fspl, p_tx_dbm, noise_dbm)
      lat == latency_ms(d, proc_queue_ms)
  IN  [u |-> u.id, v |-> v.id,
       latency_ms |-> lat,
       capacity_mbps |-> capacity_mbps(bw_mhz, snr),
       energy_j |-> energy_j(lat, p_tx_dbm, u.kind),
       reliability |-> reliability(d, {u.kind, v.kind}),
       enabled |-> TRUE]

Admitted(nodes, p) ==
  /\ distance_km(nodes[p[1]], nodes[p[2]]) <= _max_range(nodes[p[1]].kind, nodes[p[2]].kind)
  /\ elevation_ok(nodes[p[1]], nodes[p[2]], 10)

BuildLinks(nodes) ==
  LET ps == SelectSeq(PairsFrom(1, 2, Len(nodes)), LAMBDA p : Admitted(nodes, p))
  IN  [k \in 1..Len(ps) |-> MakeLink(nodes[ps[k][1]], nodes[ps[k][2]])]

RECURSIVE BuildAdjOneWay(_, _, _)
BuildAdjOneWay(links, k, adj) ==
  IF k > Len(links) THEN adj
  ELSE BuildAdjOneWay(links, k + 1, [adj EXCEPT ![links[k].u] = Append(@, links[k].v)])

RECURSIVE BuildAdj(_, _, _)
BuildAdj(links, k, adj) ==
  IF k > Len(links) THEN adj
  ELSE LET e == links[k]
           a1 == [adj EXCEPT ![e.u] = Append(@, e.v)]
           a2 == [a1 EXCEPT ![e.v] = Append(@, e.u)]
       IN  BuildAdj(links, k + 1, a2)

BuildEdgeIndexOneWay(links) ==
  [key \in {<<links[k].u, links[k].v>> : k \in 1..Len(links)} |->
     CHOOSE k \in 1..Len(links) : key = <<links[k].u, links[k].v>>]

BuildEdgeIndex(links) ==
  LET keys == UNION {{<<links[k].u, links[k].v>>, <<links[k].v, links[k].u>>} : k \in 1..Len(links)}
      Last(key) == CHOOSE k \in 1..Len(links) :
                     /\ key \in {<<links[k].u, links[k].v>>, <<links[k].v, links[k].u>>}
                     /\ \A m \in 1..Len(links) :
                          key \in {<<links[m].u, links[m].v>>, <<links[m].v, links[m].u>>} => m <= k
  IN  [key \in keys |-> Last(key)]

build_graph(nodes) ==
  LET links == BuildLinks(nodes)
      ids == {nodes[i].id : i \in 1..Len(nodes)}
  IN  [nodes |-> nodes,
       links |-> links,
       adj |-> BuildAdj(links, 1, [n \in ids |-> << >>]),
       edge_index |-> BuildEdgeIndex(links)]

rebuild_from_nodes(nodes_json) == build_graph(nodes_json)

\* --------------------------------------------------------- node lists
Nd(id, kind, lon, alt) == [id |-> id, kind |-> kind, lat |-> 0, lon |-> lon, alt_m |-> alt]

\* N0, N1, N2 of the end-to-end scenarios; the triangle of test_aco_on_toy;
\* a chain whose end nodes are out of range of each other
SeedNodes == << Nd(0, "ground", 0, 0), Nd(1, "ground", 1, 0), Nd(2, "sat", 2, 550000) >>
ToyNodes == << Nd(0, "ground", 0, 0), Nd(1, "ground", 2, 0), Nd(2, "ground", 4, 0) >>
ChainNodes == << Nd(0, "ground", 0, 0), Nd(1, "air", 30, 9000), Nd(2, "ground", 60, 0) >>
NodeLists == {SeedNodes, ToyNodes, ChainNodes}

\* the inputs of build_graph taken as a pure function: three nodes with
\* unique ids in any list order, of several kinds, at longitudes that give
\* the distances 0, 111 km, 378 km, 489 km (admitted) and 556 km, 667 km
\* (beyond the range)
AltOf(kind) == IF kind = "sat" THEN 550000 ELSE IF kind = "air" THEN 9000 ELSE 0
BuildInputs ==
  LET IdOrders == {<<0, 1, 2>>, <<0, 2, 1>>, <<1, 0, 2>>, <<1, 2, 0>>, <<2, 0, 1>>, <<2, 1, 0>>}
      KindTriples == {<<"ground", "ground", "sat">>, <<"ground", "air", "ground">>,
                      <<"sat", "sat", "air">>, <<"air", "ground", "sat">>}
      Lons == {0, 10, 44, 60}
  IN  {[i \in 1..3 |-> Nd(ids[i], kinds[i], lons[i], AltOf(kinds[i]))] :
         ids \in IdOrders, kinds \in KindTriples, lons \in [1..3 -> Lons]}
NodeIds == 0..2

\* --------------------------------------------------------- objective.py
\* Python None: as a string for messages, as the empty tuple for a weight
\* override (both are falsy), as -1 for a node id
None == "None"
NoWeights == << >>
NoNode == 0 - 1
Inf == 2000000000

SeqMin(s) == CHOOSE x \in {s[i] : i \in 1..Len(s)} : \A j \in 1..Len(s) : x <= s[j]
SeqMax(s) == CHOOSE x \in {s[i] : i \in 1..Len(s)} : \A j \in 1..Len(s) : x >= s[j]

normalize(value, min_v, max_v) ==
  IF max_v <= min_v THEN 0
  ELSE Min2(Max2(((value - min_v) * 1000) \div (max_v - min_v), 0), 1000)

\* 1.0 / max(capacity_mbps, 1e-6), in millionths of 1/Mbps (capacities under
\* 1 kbit/s saturate)
InvCap(cap) == 1000000000 \div Max2(cap \div 1000, 1)

\* aco.weights of the configuration, thousandths
DefaultWeights == <<500, 200, 200, 100>>

EdgeCost(e, en, w) ==
  LET lats == [i \in 1..Len(en) |-> en[i].latency_ms]
      caps == [i \in 1..Len(en) |-> en[i].capacity_mbps]
      enes == [i \in 1..Len(en) |-> en[i].energy_j]
      rels == [i \in 1..Len(en) |-> en[i].reliability]
      lat_n == normalize(e.latency_ms, SeqMin(lats), SeqMax(lats))
      inv_cap_n == normalize(InvCap(e.capacity_mbps), InvCap(SeqMax(caps)), InvCap(SeqMin(caps)))
      ene_n == normalize(e.energy_j, SeqMin(enes), SeqMax(enes))
      inv_rel_n == normalize(1000000 - e.reliability, 1000000 - SeqMax(rels), 1000000 - SeqMin(rels))
  IN  w[1] * lat_n + w[2] * inv_cap_n + w[3] * ene_n + w[4] * inv_rel_n + 1

\* costs of both directions of every enabled link; a later link with the
\* same key overwrites an earlier one
compute_edge_costs(gs, weights_override) ==
  LET en == SelectSeq(gs.links, LAMBDA e : e.enabled)
      w == IF weights_override # NoWeights THEN weights_override ELSE DefaultWeights
      Keys(e) == {<<e.u, e.v>>, <<e.v, e.u>>}
      keys == UNION {Keys(en[k]) : k \in 1..Len(en)}
      Last(key) == CHOOSE k \in 1..Len(en) :
                     /\ key \in Keys(en[k])
                     /\ \A m \in 1..Len(en) : key \in Keys(en[m]) => m <= k
  IN  [key \in keys |-> EdgeCost(en[Last(key)], en, w)]

\* ------------------------------------------------------------ solver.py
\* configuration defaults (config.py); rho, xi and q0 in tenths, the
\* pheromone values in thousandths
ants == MaxAnts
iters == MaxIters
alpha == 1
beta == 3
rho == 2
xi == 1
q0 == 2
tau0 == 200
mmas == TRUE
tau_min == 10
tau_max == 2000

\* natural numbers as little-endian digit sequences, for products that do
\* not fit a machine integer
BigBase == 10 ^ 3

RECURSIVE ToBig(_)
ToBig(n) == IF n = 0 THEN << >> ELSE <<n % BigBase>> \o ToBig(n \div BigBase)

RECURSIVE MulSmall(_, _, _)
MulSmall(b, k, carry) ==
  IF b = << >> THEN ToBig(carry)
  ELSE LET t == Head(b) * k + carry
       IN  <<t % BigBase>> \o MulSmall(Tail(b), k, t \div BigBase)

RECURSIVE MulPow(_, _, _)
MulPow(b, k, n) == IF n = 0 THEN b ELSE MulPow(MulSmall(b, k, 0), k, n - 1)

RECURSIVE BigLessFrom(_, _, _)
BigLessFrom(a, b, i) ==
  IF i = 0 THEN FALSE
  ELSE IF a[i] # b[i] THEN a[i] < b[i]
  ELSE BigLessFrom(a, b, i - 1)

BigLess(a, b) ==
  IF Len(a) # Len(b) THEN Len(a) < Len(b) ELSE BigLessFrom(a, b, Len(a))

InitTauOneWay(costs) == [k \in {k \in DOMAIN costs : k[1] < k[2]} |-> tau0]

\* self.tau[(u, v)] = tau0 for every key of self.costs
InitTau(costs) == [k \in DOMAIN costs |-> tau0]

ACO_init(gs, weights_override) ==
  LET costs == compute_edge_costs(gs, weights_override)
  IN  [costs |-> costs, tau |-> InitTau(costs), weights |-> weights_override]

_edge_enabled_any(gs, u, v) == <<u, v>> \in DOMAIN gs.edge_index

_edge_enabled(gs, u, v) ==
  /\ <<u, v>> \in DOMAIN gs.edge_index
  /\ gs.links[gs.edge_index[<<u, v>>]].enabled

_neighbors(gs, a, u) ==
  IF u \in DOMAIN gs.adj
    THEN SelectSeq(gs.adj[u], LAMBDA v : <<u, v>> \in DOMAIN a.costs /\ _edge_enabled(gs, u, v))
    ELSE << >>

\* (tau[cur,x] ** alpha) * (eta(cur,x) ** beta) < (tau[cur,y] ** alpha) *
\* (eta(cur,y) ** beta), with alpha = 1 and eta = 1/cost, cross-multiplied
ScoreLess(a, cur, x, y) ==
  BigLess(MulPow(ToBig(a.tau[<<cur, x>>]), a.costs[<<cur, y>>], beta),
          MulPow(ToBig(a.tau[<<cur, y>>]), a.costs[<<cur, x>>], beta))

\* max(nbrs, key=score): the first element with the greatest score
ArgMax(a, cur, nbrs) ==
  LET i == CHOOSE i \in 1..Len(nbrs) :
             /\ \A j \in 1..Len(nbrs) : ~ ScoreLess(a, cur, nbrs[i], nbrs[j])
             /\ \A j \in 1..(i - 1) : ScoreLess(a, cur, nbrs[j], nbrs[i])
  IN  nbrs[i]

\* outcomes of the cumulative-sum sampler: any neighbour with a positive
\* score, the first neighbour (draw 0.0) and the last neighbour (default)
Sampled(a, cur, nbrs) ==
  {nbrs[i] : i \in {i \in 1..Len(nbrs) : a.tau[<<cur, nbrs[i]>>] > 0}} \cup {nbrs[1], nbrs[Len(nbrs)]}

LocalUpdateBoth(tau, cur, v) ==
  [tau EXCEPT ![<<cur, v>>] = ((10 - xi) * @ + xi * tau0) \div 10,
              ![<<v, cur>>] = ((10 - xi) * @ + xi * tau0) \div 10]

LocalUpdate(tau, cur, v) ==
  [tau EXCEPT ![<<cur, v>>] = ((10 - xi) * @ + xi * tau0) \div 10]

RECURSIVE GlobalUpdate(_, _, _, _)
GlobalUpdate(tau, best_path, delta, i) ==
  IF i >= Len(best_path) THEN tau
  ELSE LET u == best_path[i]
           v == best_path[i + 1]
           t1 == [tau EXCEPT ![<<u, v>>] = ((10 - rho) * @ + rho * delta) \div 10]
           t2 == [t1 EXCEPT ![<<v, u>>] = ((10 - rho) * @ + rho * delta) \div 10]
       IN  GlobalUpdate(t2, best_path, delta, i + 1)

ClampLow(tau) == [k \in DOMAIN tau |-> Max2(tau[k], tau_min)]

Clamp(tau) == [k \in DOMAIN tau |-> Min2(Max2(tau[k], tau_min), tau_max)]

\* 1.0 / max(best_cost, 1e-9); a cost of 0 only occurs for the edgeless
\* path [src], where delta is not used
Delta(best_cost) == 1000000000 \div Max2(best_cost, 1)

\* ------------------------------------------------- controller.py: _bfs_path
\* the walk along prev without path.reverse()
RECURSIVE ReconstructReversed(_, _)
ReconstructReversed(prev, cur) ==
  IF cur = NoNode THEN << >> ELSE <<cur>> \o ReconstructReversed(prev, prev[cur])

RECURSIVE Reconstruct(_, _)
Reconstruct(prev, cur) ==
  IF cur = NoNode THEN << >> ELSE Reconstruct(prev, prev[cur]) \o <<cur>>

RECURSIVE BfsScan(_, _, _, _, _, _, _)
RECURSIVE BfsLoop(_, _, _, _, _)
\* the scan without the enabled test on the edge
BfsScanAny(gs, dst, u, i, dq, visited, prev) ==
  LET nb == IF u \in DOMAIN gs.adj THEN gs.adj[u] ELSE << >>
  IN  IF i > Len(nb) THEN BfsLoop(gs, dst, dq, visited, prev)
      ELSE LET v == nb[i]
           IN  IF v \in visited
                 THEN BfsScan(gs, dst, u, i + 1, dq, visited, prev)
                 ELSE LET prev2 == [x \in (DOMAIN prev) \cup {v} |-> IF x = v THEN u ELSE prev[x]]
                      IN  IF v = dst THEN Reconstruct(prev2, v)
                          ELSE BfsScan(gs, dst, u, i + 1, Append(dq, v), visited \cup {v}, prev2)

BfsScan(gs, dst, u, i, dq, visited, prev) ==
  LET nb == IF u \in DOMAIN gs.adj THEN gs.adj[u] ELSE << >>
  IN  IF i > Len(nb) THEN BfsLoop(gs, dst, dq, visited, prev)
      ELSE LET v == nb[i]
           IN  IF ~ _edge_enabled(gs, u, v) \/ v \in visited
                 THEN BfsScan(gs, dst, u, i + 1, dq, visited, prev)
                 ELSE LET prev2 == [x \in (DOMAIN prev) \cup {v} |-> IF x = v THEN u ELSE prev[x]]
                      IN  IF v = dst THEN Reconstruct(prev2, v)
                          ELSE BfsScan(gs, dst, u, i + 1, Append(dq, v), visited \cup {v}, prev2)

BfsLoop(gs, dst, dq, visited, prev) ==
  IF dq = << >> THEN << >>
  ELSE BfsScan(gs, dst, Head(dq), 1, Tail(dq), visited, prev)

_bfs_path(gs, src, dst) ==
  IF src = dst THEN <<src>>
  ELSE BfsLoop(gs, dst, <<src>>, {src}, [x \in {src} |-> NoNode])

\* ------------------------------------------------------ controller state
\* State .. resp: the graph, the lock, the request in flight, the solver of
\* that request and the output of the latest step.
\* SUBSCRIBERS: the list of subscriber queues (by queue id); queues: the
\* content of every queue created so far; streams: the state of the
\* /events generator that owns the queue; received: the frames it yielded;
\* sessions: the send-packet sessions with their two threads; log: every
\* _broadcast call in the order the calls were made.
\* agents: the TCP server of the node agent of every node (its position in
\* the accept loop, the connections waiting in its listen queue, the frame
\* it is forwarding); tcplog: the TCP events in the order they happened.
\* SPEED_MULTIPLIER: the module global of the simulation speed, a float.
VARIABLES State, nodesFile, STATE_LOCK, req, aco, resp,
          SUBSCRIBERS, queues, streams, received, sessions, log,
          agents, tcplog, SPEED_MULTIPLIER

vars == <<State, nodesFile, STATE_LOCK, req, aco, resp,
          SUBSCRIBERS, queues, streams, received, sessions, log,
          agents, tcplog, SPEED_MULTIPLIER>>
relayVars == <<agents, tcplog>>
simVars == <<SPEED_MULTIPLIER>>
eventVars == <<SUBSCRIBERS, queues, streams, received, sessions, log, relayVars, simVars>>

\* ids a request may name: the node ids and one id that is no node
ReqIds == 0..3
\* (src, dst) of the route and send-packet requests of the model
ReqPairs == {<<0, 1>>, <<0, 2>>, <<2, 0>>, <<1, 1>>, <<0, 3>>, <<3, 1>>, <<3, 3>>}
WeightChoices == {NoWeights, <<0, 0, 0, 1000>>}
Messages == {None, "hi"}
ClientPaths == {<< >>, <<0, 2>>}

Idle == [op |-> "idle"]
NoAco == [costs |-> << >>]
NoResp == [op |-> "none"]

\* ------------------------------------------------ relay frames as JSON
\* sessionId of a frame without one (msg.get("sessionId") is None)
NoSid == 0
\* json.loads failed: msg = {}, read with the defaults of msg.get
EmptyMsg == [sessionId |-> NoSid, path |-> << >>, idx |-> 0, message |-> None]
\* json.dumps({"sessionId":..,"path":..,"idx":..,"message":..}).encode()
dumps(f) ==
  [kind |-> "json", sessionId |-> f.sessionId, path |-> f.path, idx |-> f.idx, message |-> f.message]
\* json.loads(data.decode()) or {} followed by the four msg.get calls
loads(data) ==
  IF data.kind = "json"
    THEN [sessionId |-> data.sessionId, path |-> data.path, idx |-> data.idx, message |-> data.message]
    ELSE EmptyMsg

AcquireNothing(owner) == "free"

\* "with STATE_LOCK:" entered by a request handler that runs the solver
Acquire(owner) == owner

\* ---------------------------------------------- ACO.solve, step by step
\* self.gs is a reference to the GraphState the handler passed in, the live
\* State: whatever a step of the solver leaves in its gs is what the
\* controller finds in State
SolveStart(gs, src, weights_override) ==
  [gs |-> gs,
   costs |-> compute_edge_costs(gs, weights_override),
   tau |-> InitTau(compute_edge_costs(gs, weights_override)),
   best_path |-> << >>, best_cost |-> Inf,
   it |-> 0, ant |-> 0,
   path |-> <<src>>, cost_acc |-> 0]

Cur(a) == a.path[Len(a.path)]
Visited(a) == {a.path[i] : i \in 1..Len(a.path)}
Nbrs(gs, a) == SelectSeq(_neighbors(gs, a, Cur(a)), LAMBDA v : v \notin Visited(a))

Solving == req.op \in {"route", "send"} /\ req.pc = "solve"

\* a step that also switches off the link it went over
MoveConsuming(a, v) ==
  [a EXCEPT !.tau = LocalUpdate(a.tau, Cur(a), v),
            !.cost_acc = a.cost_acc + a.costs[<<Cur(a), v>>],
            !.path = Append(a.path, v),
            !.gs.links[a.gs.edge_index[<<Cur(a), v>>]].enabled = FALSE]

\* one iteration of the while loop of an ant: choose v, local update, move
Move(a, v) ==
  [a EXCEPT !.tau = LocalUpdate(a.tau, Cur(a), v),
            !.cost_acc = a.cost_acc + a.costs[<<Cur(a), v>>],
            !.path = Append(a.path, v)]

SolveStep ==
  /\ Solving
  /\ aco.it < iters /\ aco.ant < ants
  /\ Cur(aco) # req.dst
  /\ Nbrs(State, aco) # << >>
  /\ \/ /\ q0 < 10
        /\ \E v \in Sampled(aco, Cur(aco), Nbrs(State, aco)) : aco' = Move(aco, v)
     \/ /\ q0 > 0
        /\ aco' = Move(aco, ArgMax(aco, Cur(aco), Nbrs(State, aco)))
  /\ State' = aco'.gs
  /\ resp' = NoResp
  /\ UNCHANGED <<nodesFile, STATE_LOCK, req, eventVars>>

\* the end of an ant whose dead end leaves path and cost_acc as they are
AntEndKeepDead(a, dst, src) ==
  LET better == a.cost_acc < a.best_cost
  IN  [a EXCEPT !.best_cost = IF better THEN a.cost_acc ELSE @,
                !.best_path = IF better THEN a.path ELSE @,
                !.ant = @ + 1,
                !.path = <<src>>,
                !.cost_acc = 0]

\* the end of an ant that keeps every tour that reached dst
AntEndLatest(a, dst, src) ==
  LET dead == Cur(a) # dst
  IN  [a EXCEPT !.best_cost = IF dead THEN @ ELSE a.cost_acc,
                !.best_path = IF dead THEN @ ELSE a.path,
                !.ant = @ + 1,
                !.path = <<src>>,
                !.cost_acc = 0]

\* the ant reached dst or is at a dead end: keep the tour if it is the best
AntEnd(a, dst, src) ==
  LET dead == Cur(a) # dst
      path == IF dead THEN << >> ELSE a.path
      cost_acc == IF dead THEN Inf ELSE a.cost_acc
      better == path # << >> /\ cost_acc < a.best_cost
  IN  [a EXCEPT !.best_cost = IF better THEN cost_acc ELSE @,
                !.best_path = IF better THEN path ELSE @,
                !.ant = @ + 1,
                !.path = <<src>>,
                !.cost_acc = 0]

SolveAntEnd ==
  /\ Solving
  /\ aco.it < iters /\ aco.ant < ants
  /\ Cur(aco) = req.dst \/ Nbrs(State, aco) = << >>
  /\ aco' = AntEnd(aco, req.dst, req.src)
  /\ State' = aco'.gs
  /\ resp' = NoResp
  /\ UNCHANGED <<nodesFile, STATE_LOCK, req, eventVars>>

\* an end of iteration that starts the same iteration again
IterEndRepeat(a) ==
  LET t1 == IF a.best_path # << >>
              THEN GlobalUpdate(a.tau, a.best_path, Delta(a.best_cost), 1)
              ELSE a.tau
  IN  [a EXCEPT !.tau = Clamp(t1), !.it = 0, !.ant = 0]

\* after the last ant of an iteration: global update, then the MMAS clamp
IterEnd(a) ==
  LET t1 == IF a.best_path # << >>
              THEN GlobalUpdate(a.tau, a.best_path, Delta(a.best_cost), 1)
              ELSE a.tau
      t2 == IF mmas THEN Clamp(t1) ELSE t1
  IN  [a EXCEPT !.tau = t2, !.it = @ + 1, !.ant = 0]

SolveIterEnd ==
  /\ Solving
  /\ aco.it < iters /\ aco.ant = ants
  /\ aco' = IterEnd(aco)
  /\ State' = aco'.gs
  /\ req' = IF aco.it + 1 = iters THEN [req EXCEPT !.pc = "solved"] ELSE req
  /\ resp' = NoResp
  /\ UNCHANGED <<nodesFile, STATE_LOCK, eventVars>>

\* ------------------------------------------------------- lib/metrics.py
\* math.sqrt on naturals below 2^30, rounded down
RECURSIVE SqrtBetween(_, _, _)
SqrtBetween(lo, hi, n) ==
  IF lo >= hi THEN lo
  ELSE LET mid == (lo + hi + 1) \div 2
       IN  IF mid * mid <= n THEN SqrtBetween(mid, hi, n) ELSE SqrtBetween(lo, mid - 1, n)
ISqrt(n) == SqrtBetween(0, 32767, n)

\* EARTH_RADIUS_M in units of 100 m
EarthRadiusHm == 63710

\* ECEF distance of two points of latitude 0, in metres (steps of 100 m):
\* d^2 = (r1 - r2)^2 + 4*r1*r2*sin^2(dlon/2) with r = EARTH_RADIUS_M + alt;
\* for the longitude differences of the node lists (a few degrees) the
\* chord 2*sin(dlon/2) is the arc and sqrt(r1*r2) is (r1 + r2)/2
slant_range_m(n1, n2) ==
  LET a1 == n1.alt_m \div 100
      a2 == n2.alt_m \div 100
      arc == haversine_km(n1.lat, n1.lon, n2.lat, n2.lon) \div 100
      across == (arc * (2 * EarthRadiusHm + a1 + a2)) \div (2 * EarthRadiusHm)
  IN  100 * ISqrt((a1 - a2) * (a1 - a2) + across * across)

\* fspl_db_km_ghz(d_km, 2.4) with d_km = max(1e-6, d_m / 1000), thousandths
\* of a dB: 20*log10(2.4) = 7.604
fspl_db_km_ghz(d_m) ==
  (IF d_m < 1 THEN 0 - 120000 ELSE TwentyLog10(d_m) - 60000) + 7604 + 92450

\* thermal_noise_dbm(1e6): -174 + 10*log10(1e6) + 5, in dBm
ThermalNoiseDbm == 0 - 109
\* pt_dbm and bw_hz (in MHz) of the metrics module, phy_eff*mac_eff*code_rate
\* in thousandths, packet_bytes, proc_ms
MetricsPtDbm == 30
MetricsBwMhz == 1
MetricsEff == 648
PacketBytes == 1500
MetricsProcMs == 1

\* bit/s
link_throughput_bps_from_budget(d_m) ==
  LET snr_db == MetricsPtDbm * 1000 - fspl_db_km_ghz(d_m) - ThermalNoiseDbm * 1000
      y == ((snr_db \div 100) * 33219) \div 1000
      c == MetricsBwMhz * Log2OnePlus(y) * 1000
  IN  Max2(0, (c \div 1000) * MetricsEff)

\* transmission + propagation + proc_ms + queue_ms (0), in nanoseconds
hop_latency_ms(packet_bytes, rate_bps, distance_m) ==
  ((packet_bytes * 8 * 100000) \div Max2(rate_bps \div 1000, 1)) * 10
    + (distance_m * 1000) \div 299792
    + MetricsProcMs * 1000000

\* the hops of path both of whose ends are ids of nodes
KnownHops(path, nodes) ==
  LET ids == {nodes[i].id : i \in 1..Len(nodes)}
  IN  {i \in 1..(Len(path) - 1) : path[i] \in ids /\ path[i + 1] \in ids}

NodeById(nodes, id) == nodes[CHOOSE i \in 1..Len(nodes) :
                              nodes[i].id = id /\ \A j \in 1..(i - 1) : nodes[j].id # id]

HopRange(path, nodes, i) ==
  slant_range_m(NodeById(nodes, path[i]), NodeById(nodes, path[i + 1]))

RECURSIVE SumOver(_, _)
SumOver(f, S) ==
  IF S = {} THEN 0
  ELSE LET x == CHOOSE y \in S : TRUE IN f[x] + SumOver(f, S \ {x})

path_latency_ms_for_state(path, nodes) ==
  IF Len(path) < 2 THEN 0
  ELSE LET hops == KnownHops(path, nodes)
           lat == [i \in hops |->
                    hop_latency_ms(PacketBytes,
                                   Max2(1, link_throughput_bps_from_budget(HopRange(path, nodes, i))),
                                   HopRange(path, nodes, i))]
       IN  SumOver(lat, hops)

\* result in bit/s
path_throughput_mbps_for_state(path, nodes) ==
  IF Len(path) < 2 THEN 0
  ELSE LET hops == KnownHops(path, nodes)
           per_link == {link_throughput_bps_from_budget(HopRange(path, nodes, i)) : i \in hops}
       IN  IF per_link = {} THEN 0
           ELSE CHOOSE c \in per_link : \A o \in per_link : c <= o

\* ------------------------------------------------------------ post_route
RECURSIVE PathCost(_, _, _)
PathCost(costs, path, i) ==
  IF i >= Len(path) THEN 0
  ELSE (IF <<path[i], path[i + 1]>> \in DOMAIN costs
          THEN costs[<<path[i], path[i + 1]>>] ELSE 1000000)
       + PathCost(costs, path, i + 1)

post_route_begin ==
  /\ req = Idle /\ STATE_LOCK = "free"
  /\ \E p \in ReqPairs, w \in WeightChoices :
       /\ req' = [op |-> "route", pc |-> "solve", src |-> p[1], dst |-> p[2], weights |-> w]
       /\ aco' = SolveStart(State, p[1], w)
       /\ State' = aco'.gs
  /\ STATE_LOCK' = Acquire("request")
  /\ resp' = NoResp
  /\ UNCHANGED <<nodesFile, eventVars>>

RouteResponseNoFallback(gs, a, r) ==
  IF a.best_path = << >> \/ a.best_cost >= Inf
    THEN [op |-> "route", status |-> 422, src |-> r.src, dst |-> r.dst]
    ELSE [op |-> "route", status |-> 200, src |-> r.src, dst |-> r.dst,
          via |-> "aco", path |-> a.best_path, cost |-> a.best_cost,
          latency_ms |-> path_latency_ms_for_state(a.best_path, gs.nodes),
          throughput_mbps |-> path_throughput_mbps_for_state(a.best_path, gs.nodes)]

RouteResponse(gs, a, r) ==
  IF a.best_path = << >> \/ a.best_cost >= Inf
    THEN LET path == _bfs_path(gs, r.src, r.dst)
         IN  IF path = << >>
               THEN [op |-> "route", status |-> 422, src |-> r.src, dst |-> r.dst]
               ELSE [op |-> "route", status |-> 200, src |-> r.src, dst |-> r.dst,
                     via |-> "bfs", path |-> path,
                     cost |-> PathCost(compute_edge_costs(gs, r.weights), path, 1),
                     latency_ms |-> path_latency_ms_for_state(path, gs.nodes),
                     throughput_mbps |-> path_throughput_mbps_for_state(path, gs.nodes)]
    ELSE [op |-> "route", status |-> 200, src |-> r.src, dst |-> r.dst,
          via |-> "aco", path |-> a.best_path, cost |-> a.best_cost,
          latency_ms |-> path_latency_ms_for_state(a.best_path, gs.nodes),
          throughput_mbps |-> path_throughput_mbps_for_state(a.best_path, gs.nodes)]

post_route_end ==
  /\ req.op = "route" /\ req.pc = "solved"
  /\ resp' = RouteResponse(State, aco, req)
  /\ req' = Idle
  /\ aco' = NoAco
  /\ STATE_LOCK' = "free"
  /\ UNCHANGED <<State, nodesFile, eventVars>>

\* ------------------------------------------------------ post_send_packet
\* list(State.links) shares the Link objects with the graph it was taken
\* from; the snapshot keeps the fields no writer changes
LinksSnapshot(gs) ==
  [k \in 1..Len(gs.links) |-> [u |-> gs.links[k].u, v |-> gs.links[k].v,
                                latency_ms |-> gs.links[k].latency_ms]]

HasClientPath(path) == Len(path) >= 2

\* client path: the whole first critical section is one step
post_send_packet_begin ==
  /\ req = Idle /\ STATE_LOCK = "free"
  /\ \E p \in ReqPairs, m \in Messages, cp \in ClientPaths :
     LET src == p[1]
         dst == p[2]
     IN
       IF HasClientPath(cp)
         THEN /\ req' = [op |-> "send", pc |-> "unlocked", src |-> src, dst |-> dst,
                         message |-> m, client |-> cp, path |-> cp, cost |-> 0,
                         links_snapshot |-> LinksSnapshot(State),
                         edge_index_snapshot |-> State.edge_index]
              /\ aco' = NoAco
              /\ State' = State
              /\ STATE_LOCK' = "free"
         ELSE /\ req' = [op |-> "send", pc |-> "solve", src |-> src, dst |-> dst,
                         message |-> m, client |-> cp, weights |-> NoWeights]
              /\ aco' = SolveStart(State, src, NoWeights)
              /\ State' = aco'.gs
              /\ STATE_LOCK' = Acquire("request")
  /\ resp' = NoResp
  /\ UNCHANGED <<nodesFile, eventVars>>

\* end of the first critical section after the solve
post_send_packet_snapshot ==
  /\ req.op = "send" /\ req.pc = "solved"
  /\ req' = [op |-> "send", pc |-> "unlocked", src |-> req.src, dst |-> req.dst,
             message |-> req.message, client |-> req.client,
             path |-> aco.best_path, cost |-> aco.best_cost,
             links_snapshot |-> LinksSnapshot(State),
             edge_index_snapshot |-> State.edge_index]
  /\ aco' = NoAco
  /\ STATE_LOCK' = "free"
  /\ resp' = NoResp
  /\ UNCHANGED <<State, nodesFile, eventVars>>

NeedsFallback(r) == r.path = << >> \/ (r.cost >= Inf /\ r.client = << >>)

\* BFS fallback in a second critical section
post_send_packet_fallback ==
  /\ req.op = "send" /\ req.pc = "unlocked" /\ NeedsFallback(req)
  /\ STATE_LOCK = "free"
  /\ LET path == _bfs_path(State, req.src, req.dst)
     IN  IF path = << >>
           THEN /\ resp' = [op |-> "send", status |-> 422, src |-> req.src, dst |-> req.dst,
                            client |-> req.client]
                /\ req' = Idle
           ELSE /\ resp' = NoResp
                /\ req' = [req EXCEPT !.path = path, !.cost = 0, !.pc = "dispatch"]
  /\ UNCHANGED <<State, nodesFile, STATE_LOCK, aco, eventVars>>

\* the record the two session threads close over
NewSession(r) ==
  [path |-> r.path, src |-> r.src, dst |-> r.dst, message |-> r.message,
   links_snapshot |-> r.links_snapshot,
   edge_index_snapshot |-> r.edge_index_snapshot]

\* session id, the metrics read from State.nodes outside the lock,
\* response; the threads of the session run in SpecEvents
post_send_packet_dispatch ==
  /\ req.op = "send"
  /\ req.pc = "dispatch" \/ (req.pc = "unlocked" /\ ~ NeedsFallback(req))
  /\ resp' = [op |-> "send", status |-> 200, src |-> req.src, dst |-> req.dst,
              client |-> req.client, via |-> IF req.pc = "dispatch" THEN "bfs" ELSE "first",
              path |-> req.path, cost |-> req.cost,
              latency_ms |-> path_latency_ms_for_state(req.path, State.nodes),
              throughput_mbps |-> path_throughput_mbps_for_state(req.path, State.nodes),
              session |-> NewSession(req)]
  /\ req' = Idle
  /\ UNCHANGED <<State, nodesFile, STATE_LOCK, aco, eventVars>>

\* ----------------------------------------------------------- post_toggle
SetEnabledFlip(state, idx, enabled) == [state EXCEPT !.links[idx].enabled = ~ @]

\* State.links[idx].enabled = req.enabled
SetEnabled(state, idx, enabled) == [state EXCEPT !.links[idx].enabled = enabled]

post_toggle ==
  /\ STATE_LOCK = "free"
  /\ \E u \in ReqIds, v \in ReqIds, enabled \in BOOLEAN :
       IF <<u, v>> \notin DOMAIN State.edge_index
         THEN /\ resp' = [op |-> "toggle", status |-> 404, u |-> u, v |-> v, enabled |-> enabled]
              /\ State' = State
         ELSE /\ State' = SetEnabled(State, State.edge_index[<<u, v>>], enabled)
              /\ resp' = [op |-> "toggle", status |-> 200, u |-> u, v |-> v, enabled |-> enabled]
  /\ UNCHANGED <<nodesFile, STATE_LOCK, req, aco, eventVars>>

\* --------------------------------------- update_epoch (updater.py)
\* flip is the set of links whose draw random.random() < 0.05 succeeded
update_epoch_reset(state, flip) ==
  [state EXCEPT !.links = [k \in 1..Len(state.links) |->
     IF k \in flip THEN [state.links[k] EXCEPT !.enabled = ~ @, !.latency_ms = 0]
                   ELSE state.links[k]]]

update_epoch(state, flip) ==
  [state EXCEPT !.links = [k \in 1..Len(state.links) |->
     IF k \in flip THEN [state.links[k] EXCEPT !.enabled = ~ @] ELSE state.links[k]]]

\* POST /simulate/set-epoch
post_epoch ==
  /\ STATE_LOCK = "free"
  /\ \E flip \in SUBSET (1..Len(State.links)) : State' = update_epoch(State, flip)
  /\ resp' = [op |-> "epoch", status |-> 200]
  /\ UNCHANGED <<nodesFile, STATE_LOCK, req, aco, eventVars>>

\* one turn of the timer thread
_epoch_loop ==
  /\ STATE_LOCK = "free"
  /\ \E flip \in SUBSET (1..Len(State.links)) : State' = update_epoch(State, flip)
  /\ resp' = NoResp
  /\ UNCHANGED <<nodesFile, STATE_LOCK, req, aco, eventVars>>

\* --------------------------------------------------------- post_reload
\* a reload that carries the enabled flags over to the links of the new graph
post_reload_keep_flags ==
  /\ STATE_LOCK = "free"
  /\ \E nodes \in {nodesFile} \cup NodeLists :
       LET gs == rebuild_from_nodes(nodes)
       IN  /\ nodesFile' = nodes
           /\ State' = [gs EXCEPT !.links = [k \in DOMAIN gs.links |->
                 [gs.links[k] EXCEPT !.enabled =
                    IF k \in DOMAIN State.links THEN State.links[k].enabled ELSE TRUE]]]
  /\ resp' = [op |-> "reload", status |-> 200]
  /\ UNCHANGED <<STATE_LOCK, req, aco, eventVars>>

\* the nodes file is kept, or overwritten with the nodes read from the DB
post_reload ==
  /\ STATE_LOCK = "free"
  /\ \E nodes \in {nodesFile} \cup NodeLists :
       /\ nodesFile' = nodes
       /\ State' = rebuild_from_nodes(nodes)
  /\ resp' = [op |-> "reload", status |-> 200]
  /\ UNCHANGED <<STATE_LOCK, req, aco, eventVars>>

\* ----------------------------------------------- set-speed, get-speed
\* A Python float is a number of tenths, or the value nan; every ordered
\* comparison with nan is false, as in IEEE 754.
Float(v) == [nan |-> FALSE, v |-> v]
NaN == [nan |-> TRUE, v |-> 0]
FloatLe(a, b) == ~ a.nan /\ ~ b.nan /\ a.v <= b.v
FloatGt(a, b) == ~ a.nan /\ ~ b.nan /\ a.v > b.v

\* the multipliers a SpeedReq body can carry (pydantic float; the json
\* module reads the literal NaN)
Multipliers == {Float(0 - 10), Float(0), Float(5), Float(10), Float(20), NaN}

\* if m <= 0: raise ValueError
Rejected(m) == FloatLe(m, Float(0))

\* set_speed: no lock is taken; resp is what the handler returns or raises
set_speed ==
  /\ \E m \in Multipliers :
       IF Rejected(m)
         THEN /\ resp' = [op |-> "set-speed", status |-> 400, requested |-> m]
              /\ UNCHANGED SPEED_MULTIPLIER
         ELSE /\ SPEED_MULTIPLIER' = m
              /\ resp' = [op |-> "set-speed", status |-> 200, requested |-> m,
                          multiplier |-> m]
  /\ UNCHANGED <<State, nodesFile, STATE_LOCK, req, aco,
                 SUBSCRIBERS, queues, streams, received, sessions, log, relayVars>>

get_speed ==
  /\ resp' = [op |-> "get-speed", status |-> 200, multiplier |-> SPEED_MULTIPLIER]
  /\ UNCHANGED <<State, nodesFile, STATE_LOCK, req, aco, eventVars>>

\* ------------------------------------------------ on_start, specification
Init ==
  /\ nodesFile \in NodeLists
  /\ State = rebuild_from_nodes(nodesFile)
  /\ STATE_LOCK = "free"
  /\ req = Idle
  /\ aco = NoAco
  /\ resp = NoResp
  /\ SUBSCRIBERS = << >>
  /\ queues = << >>
  /\ streams = << >>
  /\ received = << >>
  /\ sessions = << >>
  /\ log = << >>
  /\ agents = [n \in NodeIds |-> [pc |-> "accept", backlog |-> << >>, msg |-> EmptyMsg]]
  /\ tcplog = << >>
  /\ SPEED_MULTIPLIER = Float(10)

Next ==
  \/ post_route_begin
  \/ SolveStep
  \/ SolveAntEnd
  \/ SolveIterEnd
  \/ post_route_end
  \/ post_send_packet_begin
  \/ post_send_packet_snapshot
  \/ post_send_packet_fallback
  \/ post_send_packet_dispatch
  \/ post_toggle
  \/ post_epoch
  \/ _epoch_loop
  \/ post_reload

Spec == Init /\ [][Next]_vars

\* the handler thread that runs a solve holds the lock and waits for
\* nothing, so a step of the solver that can be taken is taken
SpecSolveFair ==
  /\ Init
  /\ [][Next]_vars
  /\ WF_vars(SolveStep) /\ WF_vars(SolveAntEnd) /\ WF_vars(SolveIterEnd)

\* _bfs_path as a pure function of the graph and of src, dst, on the graphs
\* the lock-free writers make of the node lists
bfs_path ==
  /\ \E src \in ReqIds, dst \in ReqIds :
       resp' = [op |-> "bfs", src |-> src, dst |-> dst, path |-> _bfs_path(State, src, dst)]
  /\ UNCHANGED <<State, nodesFile, STATE_LOCK, req, aco, eventVars>>

SpecBfs == Init /\ [][bfs_path \/ post_toggle \/ post_epoch]_vars

\* the speed endpoints next to the lock-free writers of the graph
SpecSpeed == Init /\ [][set_speed \/ get_speed \/ post_toggle \/ post_epoch]_vars

\* the epoch ticks (the timer thread and the endpoint) next to the other
\* lock-free writers; the timer thread loops for ever, so a tick that is
\* due does happen
SpecTick ==
  /\ Init
  /\ [][_epoch_loop \/ post_epoch \/ post_toggle \/ post_reload]_vars
  /\ WF_vars(_epoch_loop)

\* build_graph as a pure function: the graph of on_start for every node
\* list of BuildInputs, then the writers that keep the node list
InitBuild ==
  /\ nodesFile \in BuildInputs
  /\ State = rebuild_from_nodes(nodesFile)
  /\ STATE_LOCK = "free"
  /\ req = Idle
  /\ aco = NoAco
  /\ resp = NoResp
  /\ SUBSCRIBERS = << >>
  /\ queues = << >>
  /\ streams = << >>
  /\ received = << >>
  /\ sessions = << >>
  /\ log = << >>
  /\ agents = [n \in NodeIds |-> [pc |-> "accept", backlog |-> << >>, msg |-> EmptyMsg]]
  /\ tcplog = << >>
  /\ SPEED_MULTIPLIER = Float(10)

SpecBuild == InitBuild /\ [][post_toggle \/ post_epoch]_vars

\* compute_edge_costs as a pure function of the graph and of the weights
\* post_route passes on: None, or the four floats of objective.weights,
\* which post_route converts with float() and does not check
WeightInputs == {NoWeights, <<0, 0, 0, 1000>>, <<0, 0, 0, 0>>, <<0 - 1000, 0, 0, 0>>,
                 <<1000, 1000, 1000, 1000>>}

edge_costs ==
  /\ \E w \in WeightInputs :
       resp' = [op |-> "costs", weights |-> w, costs |-> compute_edge_costs(State, w)]
  /\ UNCHANGED <<State, nodesFile, STATE_LOCK, req, aco, eventVars>>

SpecCosts == Init /\ [][edge_costs \/ post_toggle \/ post_epoch]_vars

\* ------------------------------------------------- SSE event broadcaster
\* subscriber connections opened in one behaviour
MaxSubs == 1

\* queue.Queue() is created without maxsize: maxsize 0
QueueMaxsize == 0

Absent == "absent"
NoFrame == [type |-> "none"]
Truthy(m) == m # None /\ m # ""

\* a queue that hands out the newest frame first
put_nowait_lifo(q, frame) ==
  IF QueueMaxsize > 0 /\ Len(q) >= QueueMaxsize THEN q ELSE <<frame>> \o q

\* Queue.put_nowait: raises Full (the caller drops the frame) only when
\* maxsize > 0 and the queue holds maxsize items
put_nowait(q, frame) ==
  IF QueueMaxsize > 0 /\ Len(q) >= QueueMaxsize THEN q ELSE Append(q, frame)

\* GET /events: _subscribe() creates the queue and appends it; limit bounds
\* the connections opened in one behaviour
Subscribe(limit) ==
  /\ Len(queues) < limit
  /\ LET q == Len(queues) + 1
     IN  /\ queues' = Append(queues, << >>)
         /\ received' = Append(received, << >>)
         /\ streams' = Append(streams, "open")
         /\ SUBSCRIBERS' = Append(SUBSCRIBERS, q)
  /\ UNCHANGED <<relayVars, simVars, State, nodesFile, STATE_LOCK, req, aco, resp, sessions, log>>

get_events == Subscribe(MaxSubs)

\* _gen: q.get() returned a frame, which is yielded to the client
stream_yield ==
  /\ \E q \in 1..Len(queues) :
       /\ streams[q] = "open"
       /\ queues[q] # << >>
       /\ received' = [received EXCEPT ![q] = Append(@, Head(queues[q]))]
       /\ queues' = [queues EXCEPT ![q] = Tail(@)]
  /\ UNCHANGED <<relayVars, simVars, State, nodesFile, STATE_LOCK, req, aco, resp, SUBSCRIBERS, streams, sessions, log>>

\* a removal by position of the connection instead of by queue
_unsubscribe_head(subs, q) == IF subs = << >> THEN subs ELSE Tail(subs)

_unsubscribe(subs, q) == SelectSeq(subs, LAMBDA x : x # q)

\* the client disconnects: the finally clause of _gen runs _unsubscribe
stream_close ==
  /\ \E q \in 1..Len(queues) :
       /\ streams[q] = "open"
       /\ streams' = [streams EXCEPT ![q] = "closed"]
       /\ SUBSCRIBERS' = _unsubscribe(SUBSCRIBERS, q)
  /\ UNCHANGED <<relayVars, simVars, State, nodesFile, STATE_LOCK, req, aco, resp, queues, received, sessions, log>>

\* ------------------------------------------ session threads (send-packet)
\* requests whose dispatch the event model follows: src, dst, message and
\* the path the handler settled on (the last one is the client's path)
SessionReqs ==
  {[src |-> 0, dst |-> 1, message |-> "hi", path |-> <<0, 1>>],
   [src |-> 0, dst |-> 1, message |-> None, path |-> <<0, 2, 1>>],
   [src |-> 2, dst |-> 0, message |-> "hi", path |-> <<0, 2>>]}

Idle2 == [pc |-> "done", i |-> 0, cum |-> 0, busy |-> FALSE, frame |-> NoFrame, subs |-> << >>]

\* threading.Thread(target=_simulate).start(); Thread(target=_tcp_relay).start()
StartThreads(session, sid, subs_at_start) ==
  [sid |-> sid, path |-> session.path, src |-> session.src, dst |-> session.dst,
   message |-> session.message,
   links_snapshot |-> session.links_snapshot,
   edge_index_snapshot |-> session.edge_index_snapshot,
   subs_at_start |-> subs_at_start,
   sim |-> [Idle2 EXCEPT !.pc = "pending", !.i = 1],
   relay |-> [Idle2 EXCEPT !.pc = "connect", !.i = 1]]

\* the end of post_send_packet for a request whose path is settled; the
\* event model follows one session from its dispatch to the end of both
\* of its threads
StartSession(reqs) ==
  /\ sessions = << >>
  /\ \E r \in reqs :
       sessions' = Append(sessions,
         StartThreads(NewSession([path |-> r.path, src |-> r.src, dst |-> r.dst,
                                  message |-> r.message,
                                  links_snapshot |-> LinksSnapshot(State),
                                  edge_index_snapshot |-> State.edge_index]),
                      Len(sessions) + 1, SUBSCRIBERS))
  /\ UNCHANGED <<relayVars, simVars, State, nodesFile, STATE_LOCK, req, aco, resp, SUBSCRIBERS, queues, streams, received, log>>

start_session == StartSession(SessionReqs)

_link_latency(s, u, v) ==
  LET idx == IF <<u, v>> \in DOMAIN s.edge_index_snapshot THEN s.edge_index_snapshot[<<u, v>>]
             ELSE IF <<v, u>> \in DOMAIN s.edge_index_snapshot THEN s.edge_index_snapshot[<<v, u>>]
             ELSE 0
  IN  IF idx \in 1..Len(s.links_snapshot) THEN s.links_snapshot[idx].latency_ms ELSE 0

PendingFrame(s, i, cum) ==
  [type |-> "packet-progress", status |-> "pending", sessionId |-> s.sid,
   nodeId |-> s.path[i], cumulativeLatencyMs |-> cum,
   message |-> IF Truthy(s.message) THEN (IF i = 1 THEN s.message ELSE None) ELSE Absent]

SuccessFrame(s, i, cum) ==
  [type |-> "packet-progress", status |-> "success", sessionId |-> s.sid,
   nodeId |-> s.path[i], cumulativeLatencyMs |-> cum,
   message |-> IF Truthy(s.message) /\ s.path[i] = s.dst THEN s.message ELSE Absent]

\* the "start event" of _tcp_relay
RelayFrame(s) ==
  [type |-> "packet-progress", status |-> "pending", sessionId |-> s.sid,
   nodeId |-> s.path[1], cumulativeLatencyMs |-> 0, message |-> s.message]

\* a simulator that stops after the first node of the path
SimAdvanceFirstOnly(s) ==
  LET t == s.sim
  IN  IF t.pc = "pending" THEN [Idle2 EXCEPT !.pc = "success", !.i = t.i, !.cum = t.cum]
      ELSE Idle2

\* a simulator that assigns the latency of the last link instead of adding it
SimAdvanceLastHop(s) ==
  LET t == s.sim
  IN  IF t.pc = "pending" THEN [Idle2 EXCEPT !.pc = "success", !.i = t.i, !.cum = t.cum]
      ELSE IF t.i < Len(s.path)
        THEN [Idle2 EXCEPT !.pc = "pending", !.i = t.i + 1,
                           !.cum = _link_latency(s, s.path[t.i], s.path[t.i + 1])]
        ELSE Idle2

\* _simulate after a _broadcast call returned: pending -> success of the
\* same node, success -> pending of the next node with its latency added
SimAdvance(s) ==
  LET t == s.sim
  IN  IF t.pc = "pending" THEN [Idle2 EXCEPT !.pc = "success", !.i = t.i, !.cum = t.cum]
      ELSE IF t.i < Len(s.path)
        THEN [Idle2 EXCEPT !.pc = "pending", !.i = t.i + 1,
                           !.cum = t.cum + _link_latency(s, s.path[t.i], s.path[t.i + 1])]
        ELSE Idle2

\* a copy that stops after the first subscriber
SubsCopyFirst(subs) == IF subs = << >> THEN subs ELSE <<Head(subs)>>

\* subs = list(SUBSCRIBERS)
SubsCopy(subs) == subs

\* _broadcast, first part: build the frame and copy SUBSCRIBERS under
\* SUB_LOCK; with no subscriber the call is over
sim_broadcast ==
  /\ \E k \in 1..Len(sessions) :
       LET s == sessions[k]
           t == s.sim
           frame == IF t.pc = "pending" THEN PendingFrame(s, t.i, t.cum)
                                        ELSE SuccessFrame(s, t.i, t.cum)
       IN  /\ t.pc \in {"pending", "success"} /\ ~ t.busy
           /\ log' = Append(log, [sid |-> s.sid, hop |-> t.i, status |-> t.pc, by |-> "simulate",
                                   frame |-> frame, subs |-> SUBSCRIBERS])
           /\ sessions' = [sessions EXCEPT ![k].sim =
                IF SubsCopy(SUBSCRIBERS) = << >> THEN SimAdvance(s)
                ELSE [t EXCEPT !.busy = TRUE, !.frame = frame, !.subs = SubsCopy(SUBSCRIBERS)]]
  /\ UNCHANGED <<relayVars, simVars, State, nodesFile, STATE_LOCK, req, aco, resp, SUBSCRIBERS, queues, streams, received>>

\* _broadcast, loop body: q.put_nowait(frame) for the next queue of the copy
sim_put ==
  /\ \E k \in 1..Len(sessions) :
       LET s == sessions[k]
           t == s.sim
       IN  /\ t.busy
           /\ queues' = [queues EXCEPT ![Head(t.subs)] = put_nowait(@, t.frame)]
           /\ sessions' = [sessions EXCEPT ![k].sim =
                IF Len(t.subs) = 1 THEN SimAdvance(s) ELSE [t EXCEPT !.subs = Tail(@)]]
  /\ UNCHANGED <<relayVars, simVars, State, nodesFile, STATE_LOCK, req, aco, resp, SUBSCRIBERS, streams, received, log>>

\* connect, sendall, close: the connection with its data waits in the listen
\* queue of the agent of node n until the accept loop takes it
Deliver(ag, n, data) ==
  [ag EXCEPT ![n].backlog = Append(@, [data |-> data, eof |-> TRUE])]

\* _tcp_relay: connect to the agent of path[0] and send the relay frame;
\* the connection is refused / times out, or the payload is sent
relay_connect ==
  /\ \E k \in 1..Len(sessions) :
       LET s == sessions[k]
           first == [sessionId |-> s.sid, path |-> s.path, idx |-> 0, message |-> s.message]
       IN  /\ s.relay.pc = "connect"
           /\ \E ok \in BOOLEAN :
                /\ sessions' = [sessions EXCEPT ![k].relay.pc =
                     IF Len(s.path) >= 2 /\ ok THEN "emit" ELSE "done"]
                /\ IF Len(s.path) < 2 THEN UNCHANGED relayVars
                   ELSE IF ok /\ s.path[1] \in DOMAIN agents
                     THEN /\ agents' = Deliver(agents, s.path[1], dumps(first))
                          /\ tcplog' = Append(tcplog, [ev |-> "fwd", node |-> NoNode, frame |-> first])
                     ELSE /\ agents' = agents
                          /\ tcplog' = Append(tcplog, [ev |-> "fail", node |-> NoNode, frame |-> first])
  /\ UNCHANGED <<simVars, State, nodesFile, STATE_LOCK, req, aco, resp, SUBSCRIBERS, queues, streams, received, log>>

relay_broadcast ==
  /\ \E k \in 1..Len(sessions) :
       LET s == sessions[k]
           t == s.relay
       IN  /\ t.pc = "emit" /\ ~ t.busy
           /\ log' = Append(log, [sid |-> s.sid, hop |-> 1, status |-> "pending", by |-> "tcp_relay",
                                   frame |-> RelayFrame(s), subs |-> SUBSCRIBERS])
           /\ sessions' = [sessions EXCEPT ![k].relay =
                IF SubsCopy(SUBSCRIBERS) = << >> THEN Idle2
                ELSE [t EXCEPT !.busy = TRUE, !.frame = RelayFrame(s), !.subs = SubsCopy(SUBSCRIBERS)]]
  /\ UNCHANGED <<relayVars, simVars, State, nodesFile, STATE_LOCK, req, aco, resp, SUBSCRIBERS, queues, streams, received>>

relay_put ==
  /\ \E k \in 1..Len(sessions) :
       LET t == sessions[k].relay
       IN  /\ t.busy
           /\ queues' = [queues EXCEPT ![Head(t.subs)] = put_nowait(@, t.frame)]
           /\ sessions' = [sessions EXCEPT ![k].relay =
                IF Len(t.subs) = 1 THEN Idle2 ELSE [t EXCEPT !.subs = Tail(@)]]
  /\ UNCHANGED <<relayVars, simVars, State, nodesFile, STATE_LOCK, req, aco, resp, SUBSCRIBERS, streams, received, log>>

InitEvents == Init /\ nodesFile = SeedNodes

NextEvents ==
  \/ get_events
  \/ stream_yield
  \/ stream_close
  \/ start_session
  \/ sim_broadcast
  \/ sim_put
  \/ relay_connect
  \/ relay_broadcast
  \/ relay_put

SpecEvents == InitEvents /\ [][NextEvents]_vars

\* The session threads with the clients connecting and disconnecting. The
\* frames stay in the queues: no thread reads a queue, so what a client has
\* read of its stream changes nothing a thread can see.
NextSession ==
  \/ get_events
  \/ stream_close
  \/ start_session
  \/ sim_broadcast
  \/ sim_put
  \/ relay_connect
  \/ relay_broadcast
  \/ relay_put

\* the simulator thread is a daemon thread that only sleeps between its
\* _broadcast calls and never waits for a lock another thread keeps: it
\* always gets to run. Nothing is assumed of the relay thread, the clients
\* or the connection to the first agent.
SpecSessionFair ==
  InitEvents /\ [][NextSession]_vars /\ WF_vars(sim_broadcast) /\ WF_vars(sim_put)

\* ------------------------------------------- broadcast to several queues
\* subscriber connections of the fan-out runs
MaxFanout == 2

\* send-packet with src = dst: ACO.solve returns ([src], 0.0), the simulator
\* broadcasts pending and success of that node, the relay has no first hop
SelfReqs == {[src |-> 0, dst |-> 0, message |-> "hi", path |-> <<0>>]}

get_events_fanout == Subscribe(MaxFanout)
start_self_session == StartSession(SelfReqs)

NextFanout ==
  \/ get_events_fanout
  \/ stream_yield
  \/ stream_close
  \/ start_self_session
  \/ sim_broadcast
  \/ sim_put
  \/ relay_connect

SpecFanout == InitEvents /\ [][NextFanout]_vars

\* the generator of an open stream keeps calling q.get, and a _broadcast
\* call that has copied the subscribers runs its loop to the end
SpecFanoutFair == SpecFanout /\ WF_vars(stream_yield) /\ WF_vars(sim_put)

\* a session with its two threads and clients that connect and stay
SpecOrder ==
  InitEvents /\ [][get_events_fanout \/ start_session \/ sim_broadcast \/ sim_put
                     \/ relay_connect \/ relay_broadcast \/ relay_put]_vars

\* ------------------------------------------- node agents (node_agent.py)
\* connections a foreign client opens to an agent in one behaviour
MaxStray == 1

TcpEvent(ev, n, frame) == [ev |-> ev, node |-> n, frame |-> frame]
Strays == Cardinality({a \in 1..Len(tcplog) : tcplog[a].ev = "stray"})

\* the bytes of a foreign client; its well-formed frame has a session id no
\* session of the controller has and the path 0 -> 1
StrayData(kind) ==
  IF kind = "json"
    THEN dumps([sessionId |-> 100 + Strays, path |-> <<0, 1>>, idx |-> 0, message |-> "hi"])
    ELSE [kind |-> kind]

\* a client that is no part of the relay connects to the agent of node n and
\* sends bytes that are no JSON or a frame whose idx is no number, and
\* closes the connection or leaves it open; or it sends a well-formed frame
\* and leaves the connection open (the relay sends the well-formed frames
\* that end with EOF)
StrayKinds == {<<"garbage", TRUE>>, <<"garbage", FALSE>>, <<"json_bad_idx", TRUE>>,
               <<"json_bad_idx", FALSE>>, <<"json", FALSE>>}

stray_connect ==
  /\ Strays < MaxStray
  /\ \E n \in NodeIds, ke \in StrayKinds :
     LET kind == ke[1]
         eof == ke[2]
     IN
       /\ agents' = [agents EXCEPT ![n].backlog = Append(@, [data |-> StrayData(kind), eof |-> eof])]
       /\ tcplog' = Append(tcplog, TcpEvent("stray", n, EmptyMsg))
  /\ UNCHANGED <<simVars, State, nodesFile, STATE_LOCK, req, aco, resp, SUBSCRIBERS, queues, streams, received, sessions, log>>

\* an exception that ends the accept loop
OnExceptionDie(agent) == [agent EXCEPT !.pc = "dead"]

\* "except Exception: time.sleep(0.2)" around the body of the accept loop
OnException(agent) == [agent EXCEPT !.pc = "accept", !.msg = EmptyMsg]

\* a failed forward that is tried again
OnForwardFailureRetry(agent) == agent

\* "except Exception as e: print(forward failed)", then conn.close()
OnForwardFailure(agent) == [agent EXCEPT !.pc = "accept", !.msg = EmptyMsg]

\* nxt_i < len(path), nxt_i = cur_i + 1 (idx counts from 0)
ShouldForward(m) == m.idx + 1 < Len(m.path)

\* the forwarded frame without the message
NextFrameNoMessage(m) == [m EXCEPT !.idx = @ + 1, !.message = None]

\* {"sessionId": sid, "path": path, "idx": nxt_i, "message": payload}
NextFrame(m) == [m EXCEPT !.idx = @ + 1]

\* accept, recv until the peer closes, json.loads, int(idx), the "TCP recv"
\* print. conn.recv raises socket.timeout when the peer has not closed
\* within 5 s; that exception and the ValueError of int(idx) leave the body
\* of the loop through "except Exception", whatever bytes have arrived.
agent_accept ==
  /\ \E n \in NodeIds :
       LET a == agents[n]
           c == Head(a.backlog)
           rest == [a EXCEPT !.backlog = Tail(@)]
           m == loads(c.data)
       IN  /\ a.pc = "accept" /\ a.backlog # << >>
           /\ IF ~ c.eof \/ c.data.kind = "json_bad_idx"
                THEN /\ agents' = [agents EXCEPT ![n] = OnException(rest)]
                     /\ tcplog' = Append(tcplog, TcpEvent("error", n, m))
                ELSE /\ agents' = [agents EXCEPT ![n] =
                          IF ShouldForward(m) THEN [rest EXCEPT !.pc = "forward", !.msg = m]
                          ELSE rest]
                     /\ tcplog' = Append(tcplog, TcpEvent("recv", n, m))
  /\ UNCHANGED <<simVars, State, nodesFile, STATE_LOCK, req, aco, resp, SUBSCRIBERS, queues, streams, received, sessions, log>>

\* connect to the agent of path[nxt_i] (3 s timeout), sendall, close; then
\* conn.close() and back to accept
agent_forward ==
  /\ \E n \in NodeIds :
       LET a == agents[n]
           m == a.msg
           next_node_id == m.path[m.idx + 2]
           out == NextFrame(m)
       IN  /\ a.pc = "forward"
           /\ \E ok \in BOOLEAN :
                IF ok /\ next_node_id \in DOMAIN agents
                  THEN /\ agents' = Deliver([agents EXCEPT ![n] = [a EXCEPT !.pc = "accept", !.msg = EmptyMsg]],
                                            next_node_id, dumps(out))
                       /\ tcplog' = Append(tcplog, TcpEvent("fwd", n, out))
                  ELSE /\ agents' = [agents EXCEPT ![n] = OnForwardFailure(a)]
                       /\ tcplog' = Append(tcplog, TcpEvent("fail", n, out))
  /\ UNCHANGED <<simVars, State, nodesFile, STATE_LOCK, req, aco, resp, SUBSCRIBERS, queues, streams, received, sessions, log>>

NextRelay ==
  \/ start_session
  \/ relay_connect
  \/ relay_broadcast
  \/ stray_connect
  \/ agent_accept
  \/ agent_forward

SpecRelay == InitEvents /\ [][NextRelay]_vars

\* ================================================================ claims
Ends(e) == {e.u, e.v}
LinkBetween(gs, u, v) == {k \in 1..Len(gs.links) : Ends(gs.links[k]) = {u, v} /\ u # v}
EnabledBetween(gs, u, v) == \E k \in LinkBetween(gs, u, v) : gs.links[k].enabled
SomeDisabled(gs) == \E k \in 1..Len(gs.links) : ~ gs.links[k].enabled

\* src, dst at the ends and every hop an enabled link of gs
ValidPath(gs, path, src, dst) ==
  /\ path # << >>
  /\ path[1] = src
  /\ path[Len(path)] = dst
  /\ \A i \in 1..(Len(path) - 1) : EnabledBetween(gs, path[i], path[i + 1])

\* nodes reachable from src over enabled links (least fixed point)
RECURSIVE ReachFrom(_, _)
ReachFrom(gs, S) ==
  LET T == S \cup {v \in NodeIds : \E u \in S : EnabledBetween(gs, u, v)}
  IN  IF T = S THEN S ELSE ReachFrom(gs, T)
Reachable(gs, src, dst) == dst \in ReachFrom(gs, {src})

\* C1: the path of a successful /route response starts at src, ends at dst
\* and every hop is a link enabled in the graph state at the moment the
\* response is assembled
C1_RoutePathEnabled ==
  (resp.op = "route" /\ resp.status = 200) =>
    ValidPath(State, resp.path, resp.src, resp.dst)
C1_Witness ==
  /\ resp.op = "route" /\ resp.status = 200
  /\ Len(resp.path) = 3
  /\ SomeDisabled(State)

\* C4: with every link incident to dst disabled and src # dst, /route
\* answers 422
AllIncidentDisabled(gs, dst) ==
  \A k \in 1..Len(gs.links) : dst \in Ends(gs.links[k]) => ~ gs.links[k].enabled
C4_IsolatedDst422 ==
  (resp.op = "route" /\ resp.src # resp.dst /\ AllIncidentDisabled(State, resp.dst)) =>
    resp.status = 422
C4_Witness ==
  /\ resp.op = "route" /\ resp.status = 422
  /\ AllIncidentDisabled(State, resp.dst)
  /\ \E k \in 1..Len(State.links) : resp.dst \in Ends(State.links[k])
  /\ \E k \in 1..Len(State.links) : resp.src \in Ends(State.links[k]) /\ State.links[k].enabled

\* C5: /route and send-packet without a client path answer 422 only when
\* dst is unreachable from src over the enabled links of the graph state
\* the request observes
C5_Only422WhenUnreachable ==
  (resp.op \in {"route", "send"} /\ resp.status = 422) =>
    ~ Reachable(State, resp.src, resp.dst)
C5_Witness ==
  /\ resp.op \in {"route", "send"} /\ resp.status = 200
  /\ resp.via = "bfs"
  /\ Len(resp.path) >= 2

\* C6: every key (u,v) of edge_index has its mirror (v,u) with the same
\* link index, and that link joins u and v
C6_EdgeIndexSymmetric ==
  \A key \in DOMAIN State.edge_index :
    /\ <<key[2], key[1]>> \in DOMAIN State.edge_index
    /\ State.edge_index[<<key[2], key[1]>>] = State.edge_index[key]
    /\ State.edge_index[key] \in 1..Len(State.links)
    /\ Ends(State.links[State.edge_index[key]]) = {key[1], key[2]}
C6_Witness ==
  /\ resp.op = "epoch"
  /\ SomeDisabled(State)
  /\ Cardinality(DOMAIN State.edge_index) = 4

\* C7: adj and edge_index are consistent views of links
InAdj(gs, u, v) == u \in DOMAIN gs.adj /\ \E i \in 1..Len(gs.adj[u]) : gs.adj[u][i] = v
C7_ViewsConsistent ==
  /\ \A u \in ReqIds, v \in ReqIds :
       /\ InAdj(State, u, v) <=> <<u, v>> \in DOMAIN State.edge_index
       /\ <<u, v>> \in DOMAIN State.edge_index <=> LinkBetween(State, u, v) # {}
       /\ InAdj(State, u, v) <=> InAdj(State, v, u)
  /\ \A key \in DOMAIN State.edge_index : State.edge_index[key] \in 1..Len(State.links)
C7_Witness ==
  /\ resp.op = "reload"
  /\ Len(State.links) = 2
  /\ ~ InAdj(State, 0, 2) /\ InAdj(State, 2, 1)

\* C8: with MMAS, at the end of every iteration (after global update and
\* clamp) every pheromone entry lies in [tau_min, tau_max]
IterationJustEnded ==
  /\ req.op \in {"route", "send"} /\ req.pc \in {"solve", "solved"}
  /\ aco.it >= 1 /\ aco.ant = 0 /\ Len(aco.path) = 1
C8_PheromoneClamped ==
  (mmas /\ IterationJustEnded) =>
    \A k \in DOMAIN aco.tau : tau_min <= aco.tau[k] /\ aco.tau[k] <= tau_max
C8_Witness ==
  /\ IterationJustEnded
  /\ \E k \in DOMAIN aco.tau : aco.tau[k] = tau_max
  /\ \E k \in DOMAIN aco.tau : aco.tau[k] = tau0

\* C9: toggle-link answers 404 and changes nothing when (u,v) is no key of
\* edge_index; otherwise it sets enabled of exactly the link joining u and v
\* and leaves everything else as it was
C9_ToggleFrame ==
  [][resp'.op = "toggle" =>
       IF <<resp'.u, resp'.v>> \notin DOMAIN State.edge_index
         THEN resp'.status = 404 /\ State' = State
         ELSE /\ resp'.status = 200
              /\ State'.nodes = State.nodes
              /\ State'.adj = State.adj
              /\ State'.edge_index = State.edge_index
              /\ Len(State'.links) = Len(State.links)
              /\ \A k \in 1..Len(State.links) :
                   State'.links[k] =
                     IF Ends(State.links[k]) = {resp'.u, resp'.v}
                       THEN [State.links[k] EXCEPT !.enabled = resp'.enabled]
                       ELSE State.links[k]]_vars
C9_Witness ==
  /\ resp.op = "toggle" /\ resp.status = 200
  /\ resp.u > resp.v
  /\ resp.enabled
  /\ SomeDisabled(State)

\* C2: within a session pending for path[i] is broadcast before success
\* for path[i], success for path[i] before any frame for path[i+1], and no
\* frame of an earlier hop after a frame of a later hop, whichever thread
\* broadcasts
C2_HopOrder ==
  \A a \in 1..Len(log), b \in 1..Len(log) :
    (a < b /\ log[a].sid = log[b].sid) =>
      /\ log[a].hop <= log[b].hop
      /\ log[a].hop = log[b].hop => ~ (log[a].status = "success" /\ log[b].status = "pending")

\* C3: a subscriber connected for the whole session 0 -> 1 with message
\* "hi" and path [0,1] gets exactly pending@0 with the message, success@0,
\* pending@1 without the message, success@1 with the message; cumulative
\* latency 0 at node 0 and > 0 at node 1
SessionOver(s) ==
  /\ s.sim.pc = "done" /\ ~ s.sim.busy
  /\ s.relay.pc = "done" /\ ~ s.relay.busy
InSeq(sq, x) == \E i \in 1..Len(sq) : sq[i] = x
FourFrames(fs) ==
  /\ Len(fs) = 4
  /\ fs[1].status = "pending" /\ fs[1].nodeId = 0 /\ fs[1].message = "hi"
  /\ fs[1].cumulativeLatencyMs = 0
  /\ fs[2].status = "success" /\ fs[2].nodeId = 0 /\ fs[2].cumulativeLatencyMs = 0
  /\ fs[3].status = "pending" /\ fs[3].nodeId = 1 /\ fs[3].message \in {None, Absent}
  /\ fs[3].cumulativeLatencyMs > 0
  /\ fs[4].status = "success" /\ fs[4].nodeId = 1 /\ fs[4].message = "hi"
  /\ fs[4].cumulativeLatencyMs > 0
C3_ExactlyFourFrames ==
  \A k \in 1..Len(sessions), q \in 1..Len(queues) :
    (/\ SessionOver(sessions[k])
     /\ sessions[k].path = <<0, 1>> /\ sessions[k].message = "hi"
     /\ InSeq(sessions[k].subs_at_start, q) /\ InSeq(SUBSCRIBERS, q))
    => FourFrames(received[q] \o queues[q])

\* C10: no subscriber queue ever holds more frames than the capacity it
\* was created with
C10_QueueBounded ==
  \A q \in 1..Len(queues) : Len(queues[q]) <= QueueMaxsize

\* C11: a subscriber that never drains its queue neither stops _broadcast
\* nor costs another subscriber a frame: every frame broadcast reaches the
\* queue of every subscriber registered when the broadcast started, once
\* per broadcast, as soon as the call has passed that subscriber's queue
Occurrences(sq, x) == Cardinality({i \in 1..Len(sq) : sq[i] = x})
Broadcasts(f, q) == Cardinality({a \in 1..Len(log) : log[a].frame = f /\ InSeq(log[a].subs, q)})
StillToPut(t, f, q) == IF t.busy /\ t.frame = f /\ InSeq(t.subs, q) THEN 1 ELSE 0
InFlight(f, q) ==
  IF sessions = << >> THEN 0
  ELSE StillToPut(sessions[1].sim, f, q) + StillToPut(sessions[1].relay, f, q)
C11_BackPressureIsolated ==
  \A a \in 1..Len(log), q \in 1..Len(queues) :
    Occurrences(received[q] \o queues[q], log[a].frame) + InFlight(log[a].frame, q)
      = Broadcasts(log[a].frame, q)
C11_Witness ==
  /\ Len(sessions) = 1 /\ SessionOver(sessions[1])
  /\ Len(queues) >= 2
  /\ received[1] = << >> /\ Len(queues[1]) = 2
  /\ Len(received[2]) = 2 /\ queues[2] = << >>

\* C12: in a session with a message, only the pending frame of src and the
\* success frame of dst carry the message, whichever thread broadcasts the
\* frame and wherever the path came from
Carries(f) == f.message \notin {None, Absent, ""}
C12_MessageOnlyAtEnds ==
  \A a \in 1..Len(log) :
    Carries(log[a].frame) =>
      \/ log[a].frame.status = "pending" /\ log[a].frame.nodeId = sessions[log[a].sid].src
      \/ log[a].frame.status = "success" /\ log[a].frame.nodeId = sessions[log[a].sid].dst

\* C13: the path of every session dispatched by send-packet starts at src,
\* ends at dst and every hop is a link enabled in the graph state at
\* dispatch, whether the path came from ACO, from BFS or from the client
C13_SessionPathValid ==
  (resp.op = "send" /\ resp.status = 200) =>
    ValidPath(State, resp.path, resp.src, resp.dst)

\* C14: while the ACO solve of a /route or send-packet request is in
\* progress the graph lock is free for a writer to take
C14_LockFreeDuringSolve == Solving => STATE_LOCK = "free"

\* C15: solve returns ([], +inf) or a path from src to dst without a
\* repeated node whose hops are enabled links; on a graph whose nodes are
\* pairwise linked and enabled, for src and dst among them, the path is
\* not empty
Solved == req.op \in {"route", "send"} /\ req.pc = "solved"
NoRepeat(p) == \A i \in 1..Len(p), j \in 1..Len(p) : p[i] = p[j] => i = j
IdsOf(gs) == {gs.nodes[i].id : i \in 1..Len(gs.nodes)}
CompleteEnabled(gs) == \A u \in IdsOf(gs), v \in IdsOf(gs) : u # v => EnabledBetween(gs, u, v)
C15_SolveResult ==
  Solved =>
    /\ \/ aco.best_path = << >> /\ aco.best_cost = Inf
       \/ /\ ValidPath(State, aco.best_path, req.src, req.dst)
          /\ NoRepeat(aco.best_path)
          /\ aco.best_cost < Inf
    /\ (CompleteEnabled(State) /\ req.src \in IdsOf(State) /\ req.dst \in IdsOf(State))
         => aco.best_path # << >>
C15_Witness ==
  /\ Solved
  /\ Len(aco.best_path) = 3
  /\ SomeDisabled(State)

\* C16: constructing the solver and running solve leave the GraphState
\* (nodes, links with their attributes and enabled flags, adj, edge_index)
\* as it was; what changes is the solver's own pheromone table
C16_SolvePure ==
  [][(Solving \/ (req = Idle /\ req'.op # "idle" /\ req'.pc = "solve")) => State' = State]_vars
C16_Witness ==
  /\ Solved
  /\ aco.gs = State
  /\ \E k \in DOMAIN aco.tau : aco.tau[k] # tau0
  /\ SomeDisabled(State)

\* C18: an agent that receives the frame with index idx forwards one frame,
\* to the agent of path[idx+1], with idx+1 and the same sessionId, path and
\* message, exactly when idx+1 < len(path); without a failure the agents of
\* path[0], path[1], ... receive the frame once each, in path order, and
\* the last one forwards nothing
RecvOf(sid) == SelectSeq(tcplog, LAMBDA e : e.ev = "recv" /\ e.frame.sessionId = sid)
FailsOf(sid) == SelectSeq(tcplog, LAMBDA e : e.ev = "fail" /\ e.frame.sessionId = sid)
AttemptsBy(n, sid, idx) ==
  SelectSeq(tcplog, LAMBDA e : /\ e.ev \in {"fwd", "fail"} /\ e.node = n
                               /\ e.frame.sessionId = sid /\ e.frame.idx = idx)
ExpectedRecv(s) ==
  [i \in 1..Len(s.path) |->
     TcpEvent("recv", s.path[i],
              [sessionId |-> s.sid, path |-> s.path, idx |-> i - 1, message |-> s.message])]
IsPrefix(p, q) == Len(p) <= Len(q) /\ \A i \in 1..Len(p) : p[i] = q[i]
Forwarding(n, f) == agents[n].pc = "forward" /\ agents[n].msg = f
RelayQuiet(s) ==
  /\ s.relay.pc # "connect"
  /\ \A n \in NodeIds : agents[n].pc = "accept" /\ agents[n].backlog = << >>
C18_RelayChain ==
  \A k \in 1..Len(sessions) :
    LET s == sessions[k]
        rs == RecvOf(s.sid)
    IN  /\ IsPrefix(rs, ExpectedRecv(s))
        /\ \A i \in 1..Len(rs) :
             LET att == AttemptsBy(rs[i].node, s.sid, i)
             IN  /\ Len(att) <= 1
                 /\ \A j \in 1..Len(att) :
                      att[j].frame = [rs[i].frame EXCEPT !.idx = i]
                 /\ (att # << >> \/ Forwarding(rs[i].node, rs[i].frame)) <=> i < Len(s.path)
        /\ (RelayQuiet(s) /\ FailsOf(s.sid) = << >> /\ Len(s.path) >= 2)
             => rs = ExpectedRecv(s)
C18_Witness ==
  /\ Len(sessions) = 1
  /\ Len(sessions[1].path) = 3
  /\ RelayQuiet(sessions[1])
  /\ RecvOf(1) = ExpectedRecv(sessions[1])

\* C19: no failure ends an agent: after a refused or timed-out forward, a
\* malformed frame or a read error its accept loop goes on with the next
\* connection; a failed hop is tried once, and no node after it gets the
\* frame of that session
C19_AgentSurvives ==
  /\ \A n \in NodeIds : agents[n].pc \in {"accept", "forward"}
  /\ \A a \in 1..Len(tcplog), b \in 1..Len(tcplog) :
       (/\ tcplog[a].ev = "fail" /\ a # b
        /\ tcplog[b].ev \in {"recv", "fwd", "fail"}
        /\ tcplog[b].frame.sessionId = tcplog[a].frame.sessionId)
       => tcplog[b].frame.idx < tcplog[a].frame.idx
C19_Witness ==
  \E a \in 1..Len(tcplog), b \in 1..Len(tcplog), c \in 1..Len(tcplog) :
    /\ a < b /\ b < c
    /\ tcplog[a].ev = "error"
    /\ tcplog[b].ev = "recv" /\ tcplog[b].node = tcplog[a].node /\ tcplog[b].frame.sessionId = 1
    /\ tcplog[c].ev = "fail" /\ tcplog[c].node = tcplog[a].node
    /\ agents[tcplog[a].node].pc = "accept"

\* C20: whatever the first-hop TCP connection does (succeeds, fails, never
\* returns), the simulator broadcasts pending then success for every node
\* of the path, in path order, and ends with success at path[-1]
SimLog == SelectSeq(log, LAMBDA e : e.by = "simulate")
SimLogInOrder(s, n) ==
  \A j \in 1..n :
    /\ SimLog[j].sid = s.sid
    /\ SimLog[j].hop = (j + 1) \div 2
    /\ SimLog[j].status = (IF j % 2 = 1 THEN "pending" ELSE "success")
    /\ SimLog[j].frame.nodeId = s.path[(j + 1) \div 2]
SimFinished ==
  /\ sessions # << >>
  /\ sessions[1].sim.pc = "done"
  /\ Len(SimLog) = 2 * Len(sessions[1].path)
  /\ SimLogInOrder(sessions[1], Len(SimLog))
C20_SimulatorCompletes ==
  /\ [](sessions # << >> =>
         Len(SimLog) <= 2 * Len(sessions[1].path) /\ SimLogInOrder(sessions[1], Len(SimLog)))
  /\ (sessions # << >>) ~> SimFinished
C20_Witness ==
  /\ SimFinished
  /\ Len(sessions[1].path) = 3
  /\ sessions[1].relay.pc = "connect"
  /\ Len(queues) = 1 /\ Len(queues[1]) = 6
\* C21: set-speed with a multiplier that is not greater than zero answers
\* 400 and leaves the stored multiplier alone, a multiplier greater than
\* zero is stored and get-speed returns the stored value; hence the stored
\* multiplier is greater than zero in every reachable state.
C21_SpeedPositive ==
  /\ FloatGt(SPEED_MULTIPLIER, Float(0))
  /\ resp.op = "set-speed" =>
       IF FloatGt(resp.requested, Float(0))
         THEN resp.status = 200 /\ SPEED_MULTIPLIER = resp.requested
         ELSE resp.status = 400
  /\ resp.op = "get-speed" => resp.multiplier = SPEED_MULTIPLIER

\* C22: a request that names an id that is no node of the graph (src, dst,
\* an end of a link, an element of a client path) is answered 4xx; no path
\* that holds such an id is returned and no session is made for it.
C22_UnknownIdRejected ==
  /\ resp.op \in {"route", "send"} =>
       /\ (resp.src \notin IdsOf(State) \/ resp.dst \notin IdsOf(State))
            => resp.status \in 400..499
       /\ resp.status = 200 =>
            \A i \in 1..Len(resp.path) : resp.path[i] \in IdsOf(State)
  /\ resp.op = "send" =>
       ((\E i \in 1..Len(resp.client) : resp.client[i] \notin IdsOf(State))
          => resp.status \in 400..499)
  /\ resp.op = "toggle" =>
       ((resp.u \notin IdsOf(State) \/ resp.v \notin IdsOf(State))
          => resp.status \in 400..499)

\* C23: for every node list with unique ids, in any list order, the links
\* of build_graph are canonical: u < v for every link, at most one link per
\* unordered pair of nodes, and no link from a node to itself.
C23_CanonicalEdges ==
  \A k \in 1..Len(State.links) :
    /\ State.links[k].u < State.links[k].v
    /\ \A j \in 1..Len(State.links) :
         Ends(State.links[j]) = Ends(State.links[k]) => j = k

\* C24: every link has a latency of at least proc_queue_ms (more for a
\* positive distance), a capacity above zero, a reliability between 0 and 1
\* and an energy of at least zero.
NodeOf(gs, id) == gs.nodes[CHOOSE i \in 1..Len(gs.nodes) : gs.nodes[i].id = id]
LinkDistance(gs, e) == distance_km(NodeOf(gs, e.u), NodeOf(gs, e.v))
C24_LinkAttributes ==
  \A k \in 1..Len(State.links) :
    LET e == State.links[k]
    IN  /\ e.latency_ms >= proc_queue_ms * 1000000
        /\ LinkDistance(State, e) > 0 => e.latency_ms > proc_queue_ms * 1000000
        /\ e.capacity_mbps > 0
        /\ 0 <= e.reliability /\ e.reliability <= 1000000
        /\ e.energy_j >= 0
C24_Witness ==
  /\ \E k \in 1..Len(State.links) :
       /\ LinkDistance(State, State.links[k]) = 0
       /\ State.links[k].latency_ms = proc_queue_ms * 1000000
  /\ \E k \in 1..Len(State.links) :
       /\ LinkDistance(State, State.links[k]) > 400000
       /\ State.links[k].reliability < 900000

\* C25: every edge cost of compute_edge_costs is above zero, for the default
\* weights and for every weight override /route accepts; every normalised
\* term lies between 0 and 1, and a term whose range is a single value
\* normalises to 0.
EnabledLinks(gs) == SelectSeq(gs.links, LAMBDA e : e.enabled)
NormalisedOk(vals, x) ==
  LET n == normalize(x, SeqMin(vals), SeqMax(vals))
  IN  /\ 0 <= n /\ n <= 1000
      /\ SeqMax(vals) = SeqMin(vals) => n = 0
C25_CostsPositive ==
  /\ resp.op = "costs" => \A key \in DOMAIN resp.costs : resp.costs[key] > 0
  /\ LET en == EnabledLinks(State)
     IN  \A k \in 1..Len(en) :
           /\ NormalisedOk([i \in 1..Len(en) |-> en[i].latency_ms], en[k].latency_ms)
           /\ NormalisedOk([i \in 1..Len(en) |-> en[i].energy_j], en[k].energy_j)
           /\ NormalisedOk([i \in 1..Len(en) |-> 1000000 - en[i].reliability],
                           1000000 - en[k].reliability)
           /\ NormalisedOk([i \in 1..Len(en) |-> InvCap(en[i].capacity_mbps)],
                           InvCap(en[k].capacity_mbps))

\* an epoch tick of SpecTick: post_epoch answers, _epoch_loop clears resp
EpochTick == resp'.op \in {"epoch", "none"}

\* C26: every epoch tick moves the satellites on and jitters the air and sea
\* nodes (lat/lon), besides flipping enabled flags.
C26_EpochMovesNodes ==
  [][EpochTick =>
       /\ Len(State'.nodes) = Len(State.nodes)
       /\ \A i \in 1..Len(State.nodes) :
            State.nodes[i].kind \in {"sat", "air", "sea"} =>
              <<State'.nodes[i].lat, State'.nodes[i].lon>>
                # <<State.nodes[i].lat, State.nodes[i].lon>>]_vars

\* C27: an epoch tick is not structural: the number and order of the links,
\* their ends and attribute values, adj and edge_index stay as they were;
\* only enabled flags may change.
C27_EpochNotStructural ==
  [][EpochTick =>
       /\ State'.adj = State.adj
       /\ State'.edge_index = State.edge_index
       /\ Len(State'.links) = Len(State.links)
       /\ \A k \in 1..Len(State.links) :
            [State'.links[k] EXCEPT !.enabled = TRUE]
              = [State.links[k] EXCEPT !.enabled = TRUE]]_vars
C27_Witness ==
  /\ resp.op = "epoch"
  /\ Len(State.links) = 3
  /\ Cardinality({k \in 1..Len(State.links) : ~ State.links[k].enabled}) = 2

\* C28: in a /route response throughput_mbps is the least capacity_mbps of
\* the links of the hops of the path and latency_ms is the sum of the
\* latency_ms of those links; a path of fewer than two nodes gives 0 for
\* both.
HopLink(gs, path, i) == gs.links[gs.edge_index[<<path[i], path[i + 1]>>]]
C28_RouteMetrics ==
  (resp.op = "route" /\ resp.status = 200) =>
    IF Len(resp.path) < 2
      THEN resp.latency_ms = 0 /\ resp.throughput_mbps = 0
      ELSE LET hops == 1..(Len(resp.path) - 1)
           IN  /\ \E i \in hops :
                    resp.throughput_mbps = HopLink(State, resp.path, i).capacity_mbps
               /\ \A i \in hops :
                    resp.throughput_mbps <= HopLink(State, resp.path, i).capacity_mbps
               /\ resp.latency_ms =
                    SumOver([i \in hops |-> HopLink(State, resp.path, i).latency_ms], hops)

\* C29: an agent processes (logs and, when a next hop exists, forwards) a
\* frame it has received whether the read ends by EOF or by the 5 s timeout
\* after the bytes of the frame have arrived: no connection that delivered
\* a well-formed frame ends in the error branch of the accept loop.
C29_FrameProcessed ==
  \A a \in 1..Len(tcplog) : tcplog[a].ev = "error" => tcplog[a].frame = EmptyMsg

\* C30: a step of an ant changes the pheromone of the directed edge
\* (cur, v) it takes and of no other entry, (v, cur) included; the update at
\* the end of an iteration deposits on both directions of every edge of the
\* best path so far and on no other entry (the clamp aside).
OnBestPath(a, k) ==
  \E i \in 1..(Len(a.best_path) - 1) :
    k \in {<<a.best_path[i], a.best_path[i + 1]>>, <<a.best_path[i + 1], a.best_path[i]>>}
Clamped(x) == IF mmas THEN Min2(Max2(x, tau_min), tau_max) ELSE x
C30_PheromoneFrame ==
  [][(Solving /\ aco' # aco) =>
       /\ DOMAIN aco'.tau = DOMAIN aco.tau
       /\ Len(aco'.path) > Len(aco.path) =>
            \A k \in DOMAIN aco.tau :
              aco'.tau[k] =
                IF k = <<Cur(aco), Cur(aco')>>
                  THEN ((10 - xi) * aco.tau[k] + xi * tau0) \div 10
                  ELSE aco.tau[k]
       /\ aco'.it > aco.it =>
            \A k \in DOMAIN aco.tau :
              aco'.tau[k] =
                IF OnBestPath(aco, k)
                  THEN Clamped(((10 - rho) * aco.tau[k] + rho * Delta(aco.best_cost)) \div 10)
                  ELSE Clamped(aco.tau[k])
       /\ (Len(aco'.path) <= Len(aco.path) /\ aco'.it = aco.it) => aco'.tau = aco.tau]_vars
C30_Witness ==
  /\ Solving /\ aco.it = 1 /\ Len(aco.path) = 2
  /\ Len(aco.best_path) = 3
  /\ aco.tau[<<aco.path[1], aco.path[2]>>] < aco.tau[<<aco.path[2], aco.path[1]>>]
  /\ aco.tau[<<aco.path[2], aco.path[1]>>] = tau_max
  /\ \E k \in DOMAIN aco.tau : ~ OnBestPath(aco, k) /\ aco.tau[k] = tau0

\* C31: throughout a solve the keys of the pheromone table are exactly both
\* directions of the links that were enabled when the solver was built (no
\* key comes or goes, a disabled link has no entry), and every value is
\* above zero.
InSolve == req.op \in {"route", "send"} /\ req.pc \in {"solve", "solved"}
EnabledKeys(gs) ==
  UNION {{<<gs.links[k].u, gs.links[k].v>>, <<gs.links[k].v, gs.links[k].u>>} :
           k \in {j \in 1..Len(gs.links) : gs.links[j].enabled}}
C31_TauKeys ==
  InSolve =>
    /\ DOMAIN aco.tau = EnabledKeys(State)
    /\ DOMAIN aco.costs = EnabledKeys(State)
    /\ \A k \in DOMAIN aco.tau : aco.tau[k] > 0
C31_Witness ==
  /\ InSolve /\ aco.it = iters
  /\ SomeDisabled(State)
  /\ Cardinality(DOMAIN aco.tau) = 4
  /\ \E k \in DOMAIN aco.tau : aco.tau[k] < tau_max /\ aco.tau[k] > tau0

\* C32: the best cost so far never goes up from one ant to the next, an ant
\* at a dead end never replaces the best path, and the best cost is the sum
\* of the edge costs along the best path, the least tour cost of the ants
\* that reached dst.
BestIsPathSum(a) ==
  IF a.best_path = << >> THEN a.best_cost = Inf
  ELSE a.best_cost = PathCost(a.costs, a.best_path, 1)
C32_BestSoFar ==
  [][/\ InSolve' => BestIsPathSum(aco')
     /\ (Solving /\ aco' # aco) =>
          /\ aco'.best_cost <= aco.best_cost
          /\ IF aco'.ant = aco.ant + 1 /\ Cur(aco) = req.dst
               THEN /\ aco'.best_cost = Min2(aco.best_cost, aco.cost_acc)
                    /\ aco'.best_path =
                         IF aco.cost_acc < aco.best_cost THEN aco.path ELSE aco.best_path
               ELSE /\ aco'.best_cost = aco.best_cost
                    /\ aco'.best_path = aco.best_path]_vars
C32_Witness ==
  /\ Solving /\ aco.it >= 1
  /\ Len(aco.best_path) = 2
  /\ Len(aco.path) = 3 /\ Cur(aco) = req.dst
  /\ aco.cost_acc > aco.best_cost

\* C33: solve ends on every graph and for every outcome of the random
\* draws: it runs iters iterations of ants ants each, and an ant takes at
\* most |nodes| - 1 steps because it never visits a node twice.
C33_SolveTerminates ==
  /\ [](InSolve =>
          /\ NoRepeat(aco.path)
          /\ Len(aco.path) - 1 <= Max2(Cardinality(IdsOf(State)) - 1, 0)
          /\ aco.it <= iters /\ aco.ant <= ants
          /\ Solved <=> aco.it = iters)
  /\ [][Solving =>
          /\ aco'.it > aco.it => (aco.ant = ants /\ aco'.it = aco.it + 1 /\ aco'.ant = 0)
          /\ aco'.ant > aco.ant => aco'.ant = aco.ant + 1
          /\ aco'.it >= aco.it]_vars
  /\ (Solving ~> Solved)
C33_Witness ==
  /\ Solved
  /\ aco.it = iters /\ aco.ant = 0
  /\ aco.best_path = << >>
  /\ req.src \in IdsOf(State) /\ req.dst \in IdsOf(State)

\* C34: _bfs_path returns [src] when src = dst; otherwise a path from src
\* to dst over enabled links that repeats no node and has the least number
\* of hops of all such paths, or [] exactly when dst cannot be reached over
\* enabled links; the graph is left as it was.
EnabledPaths(gs, src, dst) ==
  {q \in UNION {[1..n -> IdsOf(gs)] : n \in 2..Len(gs.nodes)} : ValidPath(gs, q, src, dst)}
C34_BfsShortest ==
  [][resp'.op = "bfs" =>
       /\ State' = State
       /\ IF resp'.src = resp'.dst THEN resp'.path = <<resp'.src>>
          ELSE IF ~ Reachable(State, resp'.src, resp'.dst) THEN resp'.path = << >>
          ELSE /\ ValidPath(State, resp'.path, resp'.src, resp'.dst)
               /\ NoRepeat(resp'.path)
               /\ \A q \in EnabledPaths(State, resp'.src, resp'.dst) :
                    Len(resp'.path) <= Len(q)]_vars
C34_Witness ==
  /\ resp.op = "bfs"
  /\ Len(resp.path) = 3
  /\ LinkBetween(State, resp.src, resp.dst) # {}
  /\ ~ EnabledBetween(State, resp.src, resp.dst)

\* C35: within a session the cumulativeLatencyMs of the frames for path[i]
\* is the sum of latency_ms of the snapshot links between consecutive nodes
\* of the path before i: 0 at path[0], the same in the pending and the
\* success frame of a hop, and never smaller at a later hop.
SnapLatency(s, u, v) ==
  LET K == {k \in 1..Len(s.links_snapshot) : Ends(s.links_snapshot[k]) = {u, v}}
  IN  IF K = {} THEN 0 ELSE s.links_snapshot[CHOOSE k \in K : TRUE].latency_ms
RECURSIVE CumulativeTo(_, _)
CumulativeTo(s, i) ==
  IF i <= 1 THEN 0 ELSE CumulativeTo(s, i - 1) + SnapLatency(s, s.path[i - 1], s.path[i])
C35_CumulativeLatency ==
  /\ \A a \in 1..Len(log) : \E k \in 1..Len(sessions) :
       /\ sessions[k].sid = log[a].sid
       /\ log[a].frame.nodeId = sessions[k].path[log[a].hop]
       /\ log[a].frame.cumulativeLatencyMs = CumulativeTo(sessions[k], log[a].hop)
       /\ log[a].hop = 1 => log[a].frame.cumulativeLatencyMs = 0
  /\ \A a, b \in 1..Len(log) :
       /\ log[a].sid = log[b].sid /\ log[a].hop = log[b].hop
            => log[a].frame.cumulativeLatencyMs = log[b].frame.cumulativeLatencyMs
       /\ log[a].sid = log[b].sid /\ log[a].hop <= log[b].hop
            => log[a].frame.cumulativeLatencyMs <= log[b].frame.cumulativeLatencyMs
C35_Witness ==
  \E a, b, c \in 1..Len(log) :
    /\ log[a].by = "simulate" /\ log[a].hop = 2 /\ log[a].status = "pending"
    /\ log[b].by = "simulate" /\ log[b].hop = 2 /\ log[b].status = "success"
    /\ log[c].by = "simulate" /\ log[c].hop = 3 /\ log[c].status = "success"
    /\ 0 < log[a].frame.cumulativeLatencyMs
    /\ log[a].frame.cumulativeLatencyMs < log[c].frame.cumulativeLatencyMs

\* C36: a subscriber receives the frames of the broadcasts that started
\* while it was registered in the order they were enqueued, each once: what
\* it has read is always the beginning of that sequence of frames, and as
\* long as its stream is open it comes to have read the whole sequence.
FramesFor(q) ==
  LET es == SelectSeq(log, LAMBDA e : InSeq(e.subs, q))
  IN  [i \in 1..Len(es) |-> es[i].frame]
C36_SubscriberFifo ==
  /\ [](\A q \in 1..Len(queues) :
          /\ IsPrefix(received[q] \o queues[q], FramesFor(q))
          /\ Len(FramesFor(q)) - Len(received[q] \o queues[q])
               = (IF \E k \in 1..Len(sessions) :
                       sessions[k].sim.busy /\ InSeq(sessions[k].sim.subs, q)
                  THEN 1 ELSE 0))
  /\ []<>(\A q \in 1..Len(queues) :
            streams[q] = "closed" \/ received[q] = FramesFor(q))
C36_Witness ==
  /\ Len(queues) = 2
  /\ streams[1] = "open" /\ Len(received[1]) = 2 /\ received[1] = FramesFor(1)
  /\ received[1][1].status = "pending" /\ received[1][2].status = "success"
  /\ Len(FramesFor(2)) = 1 /\ received[2] = FramesFor(2)

\* C37: two subscribers registered for the whole of a session see the
\* frames of the session in the same relative order: of two different
\* frames both have got, the one that is first for one subscriber is first
\* for the other.
PosIn(sq, x) == CHOOSE i \in 1..Len(sq) : sq[i] = x
C37_SameOrder ==
  \A k \in 1..Len(sessions), p \in 1..Len(queues), q \in 1..Len(queues) :
    (InSeq(sessions[k].subs_at_start, p) /\ InSeq(sessions[k].subs_at_start, q)) =>
      \A a \in 1..Len(queues[p]), b \in 1..Len(queues[p]) :
        (/\ a < b
         /\ queues[p][a] # queues[p][b]
         /\ Occurrences(queues[p], queues[p][a]) = 1 /\ Occurrences(queues[p], queues[p][b]) = 1
         /\ Occurrences(queues[q], queues[p][a]) = 1 /\ Occurrences(queues[q], queues[p][b]) = 1)
        => PosIn(queues[q], queues[p][a]) < PosIn(queues[q], queues[p][b])

\* C38: a queue is in SUBSCRIBERS exactly while its stream is open, and
\* never twice; a broadcast that starts after the stream has ended does not
\* copy the queue, and a queue only grows by the put of a broadcast that
\* copied it.
Putting(t, q) == t.busy /\ Head(t.subs) = q
C38_SubscriberLifecycle ==
  [][/\ \A q \in 1..Len(queues') :
          /\ streams'[q] = "open" <=> InSeq(SUBSCRIBERS', q)
          /\ Occurrences(SUBSCRIBERS', q) <= 1
     /\ \A q \in 1..Len(queues) :
          /\ (streams[q] = "closed" /\ log' # log) => ~ InSeq(log'[Len(log')].subs, q)
          /\ Len(queues'[q]) > Len(queues[q]) =>
               \E k \in 1..Len(sessions) :
                 /\ Putting(sessions[k].sim, q) \/ Putting(sessions[k].relay, q)
                 /\ \E a \in 1..Len(log) : InSeq(log[a].subs, q)]_vars
C38_Witness ==
  /\ Len(queues) = 2
  /\ streams[1] = "closed" /\ SUBSCRIBERS = <<2>>
  /\ Len(log) = 2 /\ log[1].subs = <<1, 2>> /\ log[2].subs = <<2>>
  /\ Len(queues[1]) = 1 /\ Len(queues[2]) = 2

\* C39: the path of a send-packet session, the links and edge_index it
\* keeps for the cumulative latency and the node list behind the returned
\* latency and throughput belong to one graph: there is a node list whose
\* graph has the snapshot's links and index and every hop of a computed
\* path, and whose nodes give the returned figures.
C39_OneGraphVersion ==
  (resp.op = "send" /\ resp.status = 200) =>
    \E nodes \in NodeLists :
      LET gs == rebuild_from_nodes(nodes)
      IN  /\ resp.session.links_snapshot = LinksSnapshot(gs)
          /\ resp.session.edge_index_snapshot = gs.edge_index
          /\ resp.latency_ms = path_latency_ms_for_state(resp.path, nodes)
          /\ resp.throughput_mbps = path_throughput_mbps_for_state(resp.path, nodes)
          /\ resp.client = << >> =>
               \A i \in 1..(Len(resp.path) - 1) :
                 LinkBetween(gs, resp.path[i], resp.path[i + 1]) # {}

\* C40: right after a reload the graph is the one built from the nodes
\* file, all of it, with every link enabled whatever toggles and epochs
\* did before; the reload ran with the lock free, so no request was inside
\* its critical section.
C40_ReloadEnablesAll ==
  resp.op = "reload" =>
    /\ State = rebuild_from_nodes(nodesFile)
    /\ \A k \in 1..Len(State.links) : State.links[k].enabled
    /\ STATE_LOCK = "free" /\ ~ InSolve
C40_Witness ==
  /\ resp.op = "reload"
  /\ req.op = "send" /\ req.pc = "unlocked" /\ NeedsFallback(req)
  /\ req.src # req.dst /\ {req.src, req.dst} \subseteq IdsOf(State)
  /\ req.links_snapshot = LinksSnapshot(State)
  /\ req.edge_index_snapshot = State.edge_index
  /\ CompleteEnabled(State)

====
